---- MODULE Spec2Model ----
(***************************************************************************)
(* Model of the orchestrator's execution engine: blueprint parsing,        *)
(* the Redis-backed state store and task queue, the workflow engine and    *)
(* the worker.  A Redis command is one atomic step; an engine or store     *)
(* method that issues several commands is a sequence of steps of the       *)
(* calling thread, so that other threads interleave between them.  A read  *)
(* of a key that nothing writes or deletes after initialize_workflow (the  *)
(* dependents sets) is taken in the same step as the command before it.    *)
(***************************************************************************)
EXTENDS FiniteSets, Integers, Sequences, TLC

(***************************************************************************)
(* Values                                                                  *)
(***************************************************************************)
None == "None"

\* Threads that run Worker.process_task concurrently (workers, daemons).
NumWorkers == 2
Workers == 1..NumWorkers

\* Error strings a service may put in a failed response (None: no error).
ServiceErrors == {"Invalid input"}

\* Upper bound on worker crashes in the crash specification.
MaxCrashes == 1

(***************************************************************************)
(* Blueprints: nodes in blueprint order, each with its connected_to list.  *)
(* A node key is "container:operation".                                    *)
(***************************************************************************)
Bp(nodes, conn) == [nodes |-> nodes, connected_to |-> conn]

BpSingle == Bp(<<"a:run">>, [k \in {"a:run"} |-> <<>>])

BpChain == Bp(<<"a:run", "b:run">>,
              [k \in {"a:run", "b:run"} |->
                 IF k = "a:run" THEN <<"b:run">> ELSE <<>>])

\* fan-in: two start nodes feed one node
BpFanIn == Bp(<<"b:run", "c:run", "d:run">>,
              [k \in {"b:run", "c:run", "d:run"} |->
                 IF k = "d:run" THEN <<>> ELSE <<"d:run">>])

\* a chain of three
BpChain3 == Bp(<<"a:run", "b:run", "c:run">>,
               [k \in {"a:run", "b:run", "c:run"} |->
                  CASE k = "a:run" -> <<"b:run">>
                    [] k = "b:run" -> <<"c:run">>
                    [] OTHER -> <<>>])

\* a start node next to a cycle that no start node reaches
BpIslandCycle == Bp(<<"s:run", "a:run", "b:run">>,
                    [k \in {"s:run", "a:run", "b:run"} |->
                       CASE k = "a:run" -> <<"b:run">>
                         [] k = "b:run" -> <<"a:run">>
                         [] OTHER -> <<>>])

\* a cycle reachable from the start node
BpReachableCycle == Bp(<<"a:run", "b:run", "c:run">>,
                       [k \in {"a:run", "b:run", "c:run"} |->
                          CASE k = "a:run" -> <<"b:run">>
                            [] k = "b:run" -> <<"c:run">>
                            [] OTHER -> <<"b:run">>])

\* A <-> B: no start node
BpMutual == Bp(<<"a:run", "b:run">>,
               [k \in {"a:run", "b:run"} |->
                  IF k = "a:run" THEN <<"b:run">> ELSE <<"a:run">>])

\* connection to a node that is not in the blueprint
BpBadTarget == Bp(<<"a:run">>, [k \in {"a:run"} |-> <<"z:run">>])

\* two nodes whose keys have the same first eight sha256 digits
BpSameHash == Bp(<<"n83035:run", "n83205:run">>,
                 [k \in {"n83035:run", "n83205:run"} |-> <<>>])

Blueprints == {BpSingle, BpChain, BpFanIn, BpChain3, BpIslandCycle,
               BpReachableCycle, BpMutual, BpBadTarget, BpSameHash}

Range(s) == {s[i] : i \in DOMAIN s}

\* Upper bound on the number of nodes of the blueprints given to the parser
\* in the parser specification.
MaxNodes == 4

NodeNames == <<"a:run", "b:run", "c:run", "d:run", "e:run", "f:run">>

\* the members of a set of node keys as a list, in NodeNames order
KeyList(S) == SelectSeq(NodeNames, LAMBDA k : k \in S)

\* the blueprint of the first n node names with the connection targets c
ParserBlueprint(n, c) ==
  Bp(SubSeq(NodeNames, 1, n), [k \in DOMAIN c |-> KeyList(c[k])])

(***************************************************************************)
(* BlueprintParser                                                         *)
(***************************************************************************)
\* the connection targets of the nodes i.. of the blueprint, in the order
\* the loops of _validate_connections visit them
RECURSIVE ConnectionTargets(_, _)
ConnectionTargets(bp, i) ==
  IF i > Len(bp.nodes) THEN <<>>
  ELSE bp.connected_to[bp.nodes[i]] \o ConnectionTargets(bp, i + 1)

\* _validate_connections: every connection target is a node of the blueprint
\* (the key of the first target that is not, None when all are).
_validate_connections(bp) ==
  LET valid_targets == Range(bp.nodes)
      bad == SelectSeq(ConnectionTargets(bp, 1),
                       LAMBDA k : k \notin valid_targets)
  IN IF bad = <<>> THEN None ELSE Head(bad)

Repeat(x, n) == [j \in 1..n |-> x]

\* target_node.dependencies: one entry per connection, in wiring order
RECURSIVE DepList(_, _, _)
\* a wiring pass that records only the first source of a target
DepListFirst(bp, k, i) ==
  LET srcs == {j \in i..Len(bp.nodes) :
                 k \in Range(bp.connected_to[bp.nodes[j]])}
  IN IF srcs = {} THEN <<>>
     ELSE <<bp.nodes[CHOOSE j \in srcs : \A h \in srcs : j <= h]>>

DepList(bp, k, i) ==
  IF i > Len(bp.nodes) THEN <<>>
  ELSE LET src == bp.nodes[i]
           c == bp.connected_to[src]
       IN Repeat(src, Cardinality({j \in DOMAIN c : c[j] = k}))
            \o DepList(bp, k, i + 1)

\* _build_graph: nodes, forward and reverse edges, start nodes
_build_graph(bp) ==
  LET keys == Range(bp.nodes)
      dependencies == [k \in keys |-> DepList(bp, k, 1)]
  IN [all_nodes |-> bp.nodes,
      next_nodes |-> [k \in keys |-> bp.connected_to[k]],
      dependencies |-> dependencies,
      start_nodes |-> SelectSeq(bp.nodes, LAMBDA k : dependencies[k] = <<>>)]

\* has_cycle(node): the recursive DFS of _detect_cycles, with the visited
\* and rec_stack sets threaded through the calls.
RECURSIVE has_cycle(_, _, _, _), has_cycle_scan(_, _, _, _, _)
has_cycle(g, node, visited, rec_stack) ==
  has_cycle_scan(g, node, 1, visited \cup {node}, rec_stack \cup {node})

\* a scan that leaves the node on the recursion stack when it returns
has_cycle_scan_keep(g, node, i, visited, rec_stack) ==
  IF i > Len(g.next_nodes[node])
  THEN [cycle |-> FALSE, visited |-> visited, rec_stack |-> rec_stack]
  ELSE LET next_node == g.next_nodes[node][i] IN
       IF next_node \notin visited
       THEN LET r == has_cycle(g, next_node, visited, rec_stack) IN
            IF r.cycle THEN r
            ELSE has_cycle_scan(g, node, i + 1, r.visited, r.rec_stack)
       ELSE IF next_node \in rec_stack
            THEN [cycle |-> TRUE, visited |-> visited, rec_stack |-> rec_stack]
            ELSE has_cycle_scan(g, node, i + 1, visited, rec_stack)

has_cycle_scan(g, node, i, visited, rec_stack) ==
  IF i > Len(g.next_nodes[node])
  THEN [cycle |-> FALSE, visited |-> visited, rec_stack |-> rec_stack \ {node}]
  ELSE LET next_node == g.next_nodes[node][i] IN
       IF next_node \notin visited
       THEN LET r == has_cycle(g, next_node, visited, rec_stack) IN
            IF r.cycle THEN r
            ELSE has_cycle_scan(g, node, i + 1, r.visited, r.rec_stack)
       ELSE IF next_node \in rec_stack
            THEN [cycle |-> TRUE, visited |-> visited, rec_stack |-> rec_stack]
            ELSE has_cycle_scan(g, node, i + 1, visited, rec_stack)

\* _detect_cycles: DFS from every start node not yet visited
RECURSIVE detect_from(_, _, _, _)
detect_from(g, i, visited, rec_stack) ==
  IF i > Len(g.start_nodes) THEN FALSE
  ELSE IF g.start_nodes[i] \in visited
       THEN detect_from(g, i + 1, visited, rec_stack)
       ELSE LET r == has_cycle(g, g.start_nodes[i], visited, rec_stack) IN
            r.cycle \/ detect_from(g, i + 1, r.visited, r.rec_stack)

_detect_cycles(g) == detect_from(g, 1, {}, {})

NoGraph == [all_nodes |-> <<>>, next_nodes |-> <<>>, dependencies |-> <<>>,
            start_nodes |-> <<>>]

\* parse_json on a schema-valid blueprint: the graph or a BlueprintParseError
parse_json(bp) ==
  IF _validate_connections(bp) # None
  THEN [error |-> "Invalid connection target", graph |-> NoGraph]
  ELSE LET g == _build_graph(bp) IN
       IF g.start_nodes = <<>>
       THEN [error |-> "No start nodes found", graph |-> NoGraph]
       ELSE IF _detect_cycles(g)
            THEN [error |-> "Circular dependency detected", graph |-> NoGraph]
            ELSE [error |-> None, graph |-> g]


(***************************************************************************)
(* State                                                                   *)
(***************************************************************************)
VARIABLES
  blueprint,   \* the blueprint submitted for the workflow
  producers,   \* the node keys whose service returns an output reference
  request,     \* the dockerinfo and inputs of the POST /workflows request
  endpoints,   \* endpoints:<wf>           container name -> endpoint (hash)
  redis,       \* the keys of several workflows, by key name (isolation)
  api,         \* the admitting thread: position and locals
  wfRec,       \* workflow:<wf>            the WorkflowState record, or None
  taskRec,     \* task:<wf>:<task>         TaskState records by task id
  wfTasks,     \* workflow:<wf>:tasks      the task index (set)
  graphMap,    \* graph:<wf>               node_key -> task id (hash)
  deps,        \* deps:<wf>:<task>         remaining dependencies (sets)
  dependents,  \* dependents:<wf>:<task>   downstream tasks (sets)
  queue,       \* queue:<wf>               list, head first
  wk,          \* per worker thread: position and locals
  tasks,       \* a service's TaskManager._tasks: task id -> task dict
  proc,        \* a Worker.run / process_task / daemon thread followed call
               \* by call: position and locals
  calls,       \* history: the calls that thread has made, in order
  hist         \* history: how often each task was enqueued (enqc: by
               \* complete_task), dequeued, claimed, executed, completed;
               \* failed: the tasks a fail_task call has written as failed;
               \* replays: complete_task calls made on a completed task

vars == <<blueprint, producers, request, endpoints, redis, api, wfRec, taskRec,
          wfTasks, graphMap, deps, dependents, queue, wk, tasks, proc, calls,
          hist>>

input == <<blueprint, producers, request>>

store == <<wfRec, taskRec, wfTasks, graphMap, deps, dependents, queue>>

AllKeys == UNION {Range(bp.nodes) : bp \in Blueprints}

\* hashlib.sha256(node_key.encode()).hexdigest()[:8] for the node keys of
\* the blueprints
Sha256Hex8 ==
  [k \in AllKeys |->
     CASE k = "a:run" -> "76c2137c"
       [] k = "b:run" -> "e1d73283"
       [] k = "c:run" -> "31d97afb"
       [] k = "d:run" -> "ba166230"
       [] k = "s:run" -> "23ead854"
       [] k = "n83035:run" -> "9ce97c5a"
       [] k = "n83205:run" -> "9ce97c5a"]

\* task id of a node: "task_" + the first eight hex digits of the hash
_task_id_from_node_key(node_key) == <<"task_", Sha256Hex8[node_key]>>

AllTasks == {_task_id_from_node_key(k) : k \in AllKeys}

\* the DataReference a service returns as the output of a task
OutputRef(task_id) == [protocol |-> "s3", uri |-> task_id[2], format |-> "json"]

\* WorkflowState / TaskState as persisted (timestamps left out)
WorkflowState(status, error) == [status |-> status, error |-> error]

\* a workflow error is a message (a sequence of its parts); this is None
NoMessage == <<>>

\* the value of a workflow key that does not exist
NoWorkflow == WorkflowState(None, NoMessage)
Exists(state) == state.status # None

TaskState(task_id, node_key) ==
  [task_id |-> task_id, node_key |-> node_key, status |-> "pending",
   input_refs |-> <<>>, output_refs |-> <<>>, error |-> None]

\* SMEMBERS / SCARD on a key that may not exist
SMembers(sets, k) == IF k \in DOMAIN sets THEN sets[k] ELSE {}
SCard(sets, k) == Cardinality(SMembers(sets, k))
\* SADD / SREM: a set that becomes empty is no longer a key
SAdd(sets, k, v) ==
  [x \in DOMAIN sets \cup {k} |-> IF x = k THEN SMembers(sets, k) \cup {v}
                                   ELSE sets[x]]
SRem(sets, k, v) ==
  LET rest == SMembers(sets, k) \ {v}
      dom == IF rest = {} THEN DOMAIN sets \ {k} ELSE DOMAIN sets
  IN [x \in dom |-> IF x = k THEN rest ELSE sets[x]]

Bump(h, field, t) == [h EXCEPT ![field][t] = @ + 1]

\* no task id held
NoTask == <<>>

\* no TaskState held
NoState ==
  [task_id |-> NoTask, node_key |-> None, status |-> None,
   input_refs |-> <<>>, output_refs |-> <<>>, error |-> None]

IdleWorker ==
  [pc |-> "idle", task_id |-> NoTask, task |-> NoState, state |-> NoState,
   workflow |-> NoWorkflow, output_refs |-> <<>>, error |-> None,
   dependent_ids |-> {}, dep_id |-> NoTask, unread |-> {},
   all_completed |-> TRUE]

\* no thread of the second kind
NoProc == [pc |-> "none"]

\* no HTTP response sent
NoResponse == [status_code |-> 0, detail |-> None]

\* the admitting thread before its first step; route "engine": a caller of
\* the parser and the engine, route "http": the POST /workflows handler
IdleApi == [pc |-> "submit", route |-> "engine", graph |-> NoGraph,
            task_ids |-> {}, task_id |-> NoTask, error |-> None,
            initial_inputs |-> <<>>, response |-> NoResponse]

\* dockerinfo documents: docker_info_list of [container_name, ip_address,
\* port]; a port is a string, the sequence of its characters
DockerInfoValid ==
  [docker_info_list |->
     <<[container_name |-> "a", ip_address |-> "10.0.0.1",
        port |-> <<"5", "0", "0", "5", "1">>]>>]
DockerInfoEmpty == [docker_info_list |-> <<>>]

\* Upper bound on the entries of a docker_info_list.
MaxEntries == 2

PortStrings ==
  {<<"5", "0", "0", "5", "1">>, <<"1">>, <<"6", "5", "5", "3", "5">>,
   <<"0">>, <<"6", "5", "5", "3", "6">>, <<"-", "1">>, <<"a">>}
ContainerNames == <<"a", "b">>

\* the document whose i-th entry has the i-th port
DockerInfoOf(ports) ==
  [docker_info_list |->
     [i \in DOMAIN ports |->
        [container_name |-> ContainerNames[i], ip_address |-> "10.0.0.1",
         port |-> ports[i]]]]
DockerInfos ==
  {DockerInfoEmpty}
    \cup {DockerInfoOf(ports) :
            ports \in UNION {[1..n -> PortStrings] : n \in 1..MaxEntries}}

\* inputs of a request: dicts that DataReference(**inp) accepts or rejects
InputRef == [protocol |-> "grpc", uri |-> "upstream:50051", format |-> "json"]
InputNoUri == [protocol |-> "grpc", format |-> "json"]

Requests ==
  [dockerinfo : DockerInfos,
   inputs : {<<>>, <<InputRef>>, <<InputNoUri>>}]

\* the request of the callers that use the engine directly
NoRequest == [dockerinfo |-> DockerInfoValid, inputs |-> <<>>]

\* nothing persisted, no request handled, every worker thread idle
NothingPersisted ==
  /\ tasks = <<>>
  /\ endpoints = <<>>
  /\ wfRec = NoWorkflow
  /\ taskRec = <<>>
  /\ wfTasks = {}
  /\ graphMap = <<>>
  /\ deps = <<>>
  /\ dependents = <<>>
  /\ queue = <<>>
  /\ wk = [w \in Workers |-> IdleWorker]
  /\ hist = [enq |-> [t \in AllTasks |-> 0], enqc |-> [t \in AllTasks |-> 0],
             deq |-> [t \in AllTasks |-> 0],
             claims |-> [t \in AllTasks |-> 0], execs |-> [t \in AllTasks |-> 0],
             completions |-> [t \in AllTasks |-> 0], fails |-> 0, crashes |-> 0,
             failed |-> {}, replays |-> 0]

InitState ==
  /\ NothingPersisted
  /\ redis = <<>>
  /\ proc = NoProc
  /\ calls = <<>>

Init ==
  /\ blueprint \in Blueprints
  /\ producers \in {{}, Range(blueprint.nodes)}
  /\ request = NoRequest
  /\ api = IdleApi
  /\ InitState

(***************************************************************************)
(* Admission: parse_json, initialize_workflow, start_workflow              *)
(***************************************************************************)
\* BlueprintParser.parse_json as called on submission
ParseBlueprint ==
  /\ api.pc = "submit"
  /\ LET r == parse_json(blueprint) IN
       api' = IF r.error # None
              THEN [api EXCEPT !.pc = "rejected", !.error = r.error]
              ELSE [api EXCEPT !.pc = "initialize", !.graph = r.graph]
  /\ UNCHANGED <<input, tasks, proc, calls, endpoints, redis, store, wk, hist>>

RECURSIVE SAddAll(_, _, _)
SAddAll(sets, k, vs) ==
  IF vs = {} THEN sets
  ELSE LET v == CHOOSE x \in vs : TRUE IN SAddAll(SAdd(sets, k, v), k, vs \ {v})

RECURSIVE SAddEach(_, _, _, _)
\* for every node key k of ks: SADD <task of k>, the task of every node of
\* edges[k]
SAddEach(sets, ks, node_to_task, edges) ==
  IF ks = {} THEN sets
  ELSE LET k == CHOOSE x \in ks : TRUE
       IN SAddEach(SAddAll(sets, node_to_task[k],
                           {node_to_task[d] : d \in Range(edges[k])}),
                   ks \ {k}, node_to_task, edges)

\* HSET key field value
HSet(hash, field, value) ==
  [f \in DOMAIN hash \cup {field} |-> IF f = field THEN value ELSE hash[f]]

\* initialize_workflow, first loop, from the i-th node on: create_task
\* (ValueError when the task key exists; else SET task, SADD index) and
\* HSET graph:<wf>, node by node.  s: the task records, the index and the
\* graph hash so far.
RECURSIVE CreateTasks(_, _, _)
CreateTasks(s, nodes, i) ==
  IF i > Len(nodes) THEN s
  ELSE LET node_key == nodes[i]
           task_id == _task_id_from_node_key(node_key)
       IN IF task_id \in DOMAIN s.taskRec
          THEN [s EXCEPT !.error = "Task already exists"]
          ELSE CreateTasks(
                 [s EXCEPT
                    !.taskRec = [t \in DOMAIN s.taskRec \cup {task_id} |->
                                   IF t = task_id
                                   THEN TaskState(task_id, node_key)
                                   ELSE s.taskRec[t]],
                    !.wfTasks = @ \cup {task_id},
                    !.graphMap = HSet(@, node_key, task_id)],
                 nodes, i + 1)

\* WorkflowEngine.initialize_workflow after create_workflow: the error it
\* raises (None: it returns) and the keys as it leaves them.  No worker can
\* hold a task of the workflow before start_workflow enqueues one, so the
\* writes are one step.
InitializeResult(g) ==
  LET c == CreateTasks([error |-> None, taskRec |-> taskRec,
                        wfTasks |-> wfTasks, graphMap |-> graphMap],
                       g.all_nodes, 1)
      keys == Range(g.all_nodes)
      node_to_task == [k \in keys |-> _task_id_from_node_key(k)]
  IN [error |-> c.error, taskRec |-> c.taskRec, wfTasks |-> c.wfTasks,
      graphMap |-> c.graphMap,
      deps |-> IF c.error # None THEN deps
               ELSE SAddEach(deps, keys, node_to_task, g.dependencies),
      dependents |-> IF c.error # None THEN dependents
                     ELSE SAddEach(dependents, keys, node_to_task,
                                   g.next_nodes)]

InitializeWrites(g) ==
  LET r == InitializeResult(g)
  IN /\ wfRec' = WorkflowState("pending", NoMessage)
     /\ taskRec' = r.taskRec
     /\ wfTasks' = r.wfTasks
     /\ graphMap' = r.graphMap
     /\ deps' = r.deps
     /\ dependents' = r.dependents

\* initialize_workflow as called on submission; a ValueError of create_task
\* ends the caller
initialize_workflow ==
  /\ api.pc = "initialize"
  /\ ~Exists(wfRec)                     \* create_workflow: id must be new
  /\ InitializeWrites(api.graph)
  /\ api' = IF InitializeResult(api.graph).error # None
            THEN [api EXCEPT !.pc = "raised",
                             !.error = InitializeResult(api.graph).error]
            ELSE [api EXCEPT !.pc = "start"]
  /\ UNCHANGED <<input, tasks, proc, calls, endpoints, redis, queue, wk, hist>>

\* start_workflow: update_workflow_status(RUNNING), then HVALS graph:<wf>
StartSetRunning ==
  /\ api.pc = "start"
  /\ Exists(wfRec)
  /\ wfRec' = [wfRec EXCEPT !.status = "running", !.error = NoMessage]
  /\ api' = [api EXCEPT !.pc = "start_hvals"]
  /\ UNCHANGED <<input, tasks, proc, calls, endpoints, redis, taskRec, wfTasks, graphMap, deps, dependents,
                 queue, wk, hist>>

StartHvals ==
  /\ api.pc = "start_hvals"
  /\ api' = [api EXCEPT !.pc = "start_scard", !.task_ids = Range(graphMap)]
  /\ UNCHANGED <<input, tasks, proc, calls, endpoints, redis, store, wk, hist>>

Respond(code, detail) ==
  [api EXCEPT !.pc = "responded",
              !.response = [status_code |-> code, detail |-> detail]]

\* start_workflow returns: to the engine's caller, or to submit_workflow,
\* which answers WorkflowSubmitResponse(workflow_id, status="running")
StartReturns ==
  IF api.route = "http" THEN Respond(200, <<"running">>)
  ELSE [api EXCEPT !.pc = "done"]

\* loop body, first command: SCARD deps:<wf>:<task>
StartScard ==
  /\ api.pc = "start_scard"
  /\ IF api.task_ids = {}
     THEN api' = StartReturns
     ELSE \E t \in api.task_ids :
            api' = [api EXCEPT !.task_ids = @ \ {t}, !.task_id = t,
                               !.pc = IF SCard(deps, t) = 0
                                      THEN "start_enqueue" ELSE "start_scard"]
  /\ UNCHANGED <<input, tasks, proc, calls, endpoints, redis, store, wk, hist>>

\* an enqueue at the tail of the list, where BRPOP takes from
enqueue_task_tail(q, task_id) == q \o <<task_id>>

\* RedisTaskQueue.enqueue_task: LPUSH at the head
enqueue_task(q, task_id) == <<task_id>> \o q

\* loop body, second command: enqueue the task that has no dependencies
StartEnqueue ==
  /\ api.pc = "start_enqueue"
  /\ queue' = enqueue_task(queue, api.task_id)
  /\ hist' = Bump(hist, "enq", api.task_id)
  /\ api' = [api EXCEPT !.pc = "start_scard"]
  /\ UNCHANGED <<input, tasks, proc, calls, endpoints, redis, wfRec, taskRec, wfTasks, graphMap, deps,
                 dependents, wk>>

Admission ==
  \/ ParseBlueprint
  \/ initialize_workflow
  \/ StartSetRunning
  \/ StartHvals
  \/ StartScard
  \/ StartEnqueue

(***************************************************************************)
(* The REST API: POST /workflows and DELETE /workflows/{id}, one request   *)
(* at a time, and a second initialize_workflow call on the same id.        *)
(***************************************************************************)
\* the decimal digits; DigitChars[d + 1] is the digit of value d
DigitChars == <<"0", "1", "2", "3", "4", "5", "6", "7", "8", "9">>
IsDigit(c) == \E d \in DOMAIN DigitChars : DigitChars[d] = c
DigitValue(c) == (CHOOSE d \in DOMAIN DigitChars : DigitChars[d] = c) - 1

RECURSIVE Decimal(_)
Decimal(s) ==
  IF s = <<>> THEN 0
  ELSE 10 * Decimal(SubSeq(s, 1, Len(s) - 1)) + DigitValue(s[Len(s)])

\* int(entry.port): an optional sign and decimal digits, else ValueError
\* (the blanks and "_" that int also accepts are not in the port strings)
ParsePort(port) ==
  LET signed == port # <<>> /\ port[1] \in {"+", "-"}
      digits == IF signed THEN Tail(port) ELSE port
  IN IF digits = <<>> \/ \E i \in DOMAIN digits : ~IsDigit(digits[i])
     THEN [error |-> "ValueError", value |-> 0]
     ELSE [error |-> None,
           value |-> IF signed /\ port[1] = "-" THEN 0 - Decimal(digits)
                     ELSE Decimal(digits)]

\* ServiceEndpoint.port_valid, which raises ValueError inside the model
\* validation: ServiceEndpoint(...) raises pydantic's ValidationError
port_valid(v) == ~(v <= 0 \/ v > 65535)

\* DockerInfoParser.parse_json: container_name -> ServiceEndpoint.  The
\* schema (docker_info_list not empty) and int(entry.port) fail with
\* DockerInfoParseError; ServiceEndpoint(address, port) is constructed
\* outside the try blocks, entry by entry, so the first entry that fails
\* decides the exception.
dockerinfo_parse_json(data) ==
  IF data.docker_info_list = <<>>
  THEN [error |-> "Invalid dockerinfo structure",
        exception |-> "DockerInfoParseError", endpoints |-> <<>>]
  ELSE LET l == data.docker_info_list
           names == {l[i].container_name : i \in DOMAIN l}
           last(n) == l[CHOOSE i \in DOMAIN l :
                          /\ l[i].container_name = n
                          /\ \A j \in DOMAIN l :
                               l[j].container_name = n => j <= i]
           fails(i) == \/ ParsePort(l[i].port).error # None
                       \/ ~port_valid(ParsePort(l[i].port).value)
       IN IF \E i \in DOMAIN l : fails(i)
          THEN LET first == CHOOSE i \in DOMAIN l :
                              fails(i) /\ \A j \in 1..(i - 1) : ~fails(j)
               IN IF ParsePort(l[first].port).error # None
                  THEN [error |-> "Invalid port",
                        exception |-> "DockerInfoParseError",
                        endpoints |-> <<>>]
                  ELSE [error |-> "port must be between 1 and 65535",
                        exception |-> "ValidationError", endpoints |-> <<>>]
          ELSE [error |-> None, exception |-> None,
                endpoints |-> [n \in names |->
                                 [address |-> last(n).ip_address,
                                  port |-> ParsePort(last(n).port).value]]]

\* DataReference(**inp): the required fields and the enumerations
Protocol == {"s3", "http", "https", "nfs", "grpc", "mqtt", "villas", "inline",
             "file"}
Format == {"json", "csv", "parquet", "protobuf", "binary", "xml"}
DataReferenceValid(inp) ==
  /\ {"protocol", "uri", "format"} \subseteq DOMAIN inp
  /\ inp.protocol \in Protocol /\ inp.format \in Format /\ inp.uri # ""

\* The parameters of WorkflowEngine.start_workflow after self, and the
\* binding of a call's positional arguments to them: more arguments than
\* parameters is a TypeError.
start_workflow_params == <<"workflow_id">>
CallBinds(params, args) == Len(args) = Len(params)

\* submit_workflow: parse the blueprint (400), parse the dockerinfo (400
\* for a DockerInfoParseError; any other exception leaves the handler and
\* is answered 500)
PostParse ==
  /\ api.pc = "post"
  /\ LET r == parse_json(blueprint)
         d == dockerinfo_parse_json(request.dockerinfo)
     IN api' = IF r.error # None
               THEN Respond(400, <<"Invalid blueprint: ", r.error>>)
               ELSE IF d.exception = "DockerInfoParseError"
                    THEN Respond(400, <<"Invalid dockerinfo: ", d.error>>)
                    ELSE IF d.exception # None
                         THEN Respond(500, <<"Internal Server Error">>)
                         ELSE [api EXCEPT !.pc = "post_endpoints",
                                          !.graph = r.graph]
  /\ UNCHANGED <<input, tasks, proc, calls, endpoints, redis, store, wk, hist>>

\* submit_workflow: HSET endpoints:<wf> when there are endpoints, then
\* convert request.inputs to DataReferences (400)
PostEndpoints ==
  /\ api.pc = "post_endpoints"
  /\ LET endpoints_data == dockerinfo_parse_json(request.dockerinfo).endpoints
     IN endpoints' = IF DOMAIN endpoints_data # {}
                     THEN [n \in DOMAIN endpoints \cup DOMAIN endpoints_data |->
                             IF n \in DOMAIN endpoints_data
                             THEN endpoints_data[n] ELSE endpoints[n]]
                     ELSE endpoints
  /\ api' = IF request.inputs # <<>>
               /\ \E i \in DOMAIN request.inputs :
                    ~DataReferenceValid(request.inputs[i])
            THEN Respond(400, <<"Invalid inputs">>)
            ELSE [api EXCEPT !.pc = "post_initialize",
                             !.initial_inputs = request.inputs]
  /\ UNCHANGED <<input, tasks, proc, calls, redis, store, wk, hist>>

\* submit_workflow: engine.initialize_workflow(workflow_id, graph); its
\* ValueError leaves the handler and is answered 500
PostInitialize ==
  /\ api.pc = "post_initialize"
  /\ ~Exists(wfRec)                     \* a fresh uuid
  /\ InitializeWrites(api.graph)
  /\ api' = IF InitializeResult(api.graph).error # None
            THEN Respond(500, <<"Internal Server Error">>)
            ELSE [api EXCEPT !.pc = "post_start"]
  /\ UNCHANGED <<input, tasks, proc, calls, endpoints, redis, queue, wk, hist>>

\* submit_workflow: engine.start_workflow(workflow_id, initial_inputs).
\* When the call binds, start_workflow runs and the handler answers 200;
\* when it does not, the TypeError becomes the response 500.
PostStart ==
  /\ api.pc = "post_start"
  /\ api' = IF CallBinds(start_workflow_params,
                         <<"workflow_id", api.initial_inputs>>)
            THEN [api EXCEPT !.pc = "start"]
            ELSE Respond(500, <<"Internal Server Error">>)
  /\ UNCHANGED <<input, tasks, proc, calls, endpoints, redis, store, wk, hist>>

\* DELETE /workflows/{id}, command by command.  get_workflow_status: GET
\* workflow, 404 when the record is missing
DeleteGet ==
  /\ api.pc \in {"responded", "done"}
  /\ api' = IF ~Exists(wfRec)
            THEN [api EXCEPT !.pc = "deleted",
                             !.response = [status_code |-> 404,
                                           detail |-> <<"Workflow not found">>]]
            ELSE [api EXCEPT !.pc = "delete_smembers"]
  /\ UNCHANGED <<input, tasks, proc, calls, endpoints, redis, store, wk, hist>>

\* delete_workflow: SMEMBERS workflow:<wf>:tasks
DeleteSmembers ==
  /\ api.pc = "delete_smembers"
  /\ api' = [api EXCEPT !.task_ids = wfTasks,
                        !.pc = IF wfTasks = {} THEN "delete_index"
                               ELSE "delete_task"]
  /\ UNCHANGED <<input, tasks, proc, calls, endpoints, redis, store, wk, hist>>

\* DEL key on the task records
DelTask(recs, task_id) == [t \in DOMAIN recs \ {task_id} |-> recs[t]]

\* delete_workflow: DEL task:<wf>:<task> for every task id read (any order)
DeleteTask ==
  /\ api.pc = "delete_task"
  /\ \E t \in api.task_ids :
       /\ taskRec' = DelTask(taskRec, t)
       /\ api' = [api EXCEPT !.task_ids = @ \ {t},
                             !.pc = IF api.task_ids = {t} THEN "delete_index"
                                    ELSE "delete_task"]
  /\ UNCHANGED <<input, tasks, proc, calls, endpoints, redis, wfRec, wfTasks,
                 graphMap, deps, dependents, queue, wk, hist>>

\* delete_workflow: DEL workflow:<wf>:tasks
DeleteIndex ==
  /\ api.pc = "delete_index"
  /\ wfTasks' = {}
  /\ api' = [api EXCEPT !.pc = "delete_record"]
  /\ UNCHANGED <<input, tasks, proc, calls, endpoints, redis, wfRec, taskRec,
                 graphMap, deps, dependents, queue, wk, hist>>

\* delete_workflow: DEL workflow:<wf>
DeleteRecord ==
  /\ api.pc = "delete_record"
  /\ wfRec' = NoWorkflow
  /\ api' = [api EXCEPT !.pc = "delete_endpoints"]
  /\ UNCHANGED <<input, tasks, proc, calls, endpoints, redis, taskRec, wfTasks,
                 graphMap, deps, dependents, queue, wk, hist>>

\* DEL endpoints:<wf>
DeleteEndpoints ==
  /\ api.pc = "delete_endpoints"
  /\ endpoints' = <<>>
  /\ api' = [api EXCEPT !.pc = "clear_queue"]
  /\ UNCHANGED <<input, tasks, proc, calls, redis, store, wk, hist>>

\* clear_queue: DEL queue:<wf>; the handler answers {status: deleted}
ClearQueue ==
  /\ api.pc = "clear_queue"
  /\ queue' = <<>>
  /\ api' = [api EXCEPT !.pc = "deleted",
                        !.response = [status_code |-> 200,
                                      detail |-> <<"deleted">>]]
  /\ UNCHANGED <<input, tasks, proc, calls, endpoints, redis, wfRec, taskRec,
                 wfTasks, graphMap, deps, dependents, wk, hist>>

DeleteWorkflow ==
  \/ DeleteGet
  \/ DeleteSmembers
  \/ DeleteTask
  \/ DeleteIndex
  \/ DeleteRecord
  \/ DeleteEndpoints
  \/ ClearQueue

\* A second engine.initialize_workflow(workflow_id, graph) with the id and
\* the graph of the first call: create_workflow raises ValueError when the
\* workflow record exists; after a delete the call writes everything again.
\* There is a first call only when the handler got as far as
\* initialize_workflow: a 500 answered while parsing the dockerinfo made
\* no call and holds no graph.
Reinitialize ==
  /\ \/ api.pc = "done"
     \/ api.pc = "responded" /\ api.response.status_code \in {200, 500}
     \/ api.pc = "deleted" /\ api.response.status_code = 200
  /\ api.graph # NoGraph
  /\ IF Exists(wfRec)
     THEN /\ api' = [api EXCEPT !.pc = "reinitialized",
                                !.error = "Workflow already exists"]
          /\ UNCHANGED store
     ELSE /\ InitializeWrites(api.graph)
          /\ api' = [api EXCEPT !.pc = "reinitialized",
                                !.error = InitializeResult(api.graph).error]
          /\ UNCHANGED queue
  /\ UNCHANGED <<input, tasks, proc, calls, endpoints, redis, wk, hist>>

Api ==
  \/ PostParse
  \/ PostEndpoints
  \/ PostInitialize
  \/ PostStart
  \/ DeleteWorkflow
  \/ Reinitialize


(***************************************************************************)
(* Worker.process_task: claim_task, the service call, complete_task or     *)
(* fail_task.  W(w) is the thread's record, Goto moves it.                 *)
(***************************************************************************)
W(w) == wk[w]
Set(w, r) == wk' = [wk EXCEPT ![w] = r]

\* a dequeue that reads the tail and leaves it on the list
dequeue_task_peek(q) == [task_id |-> q[Len(q)], rest |-> q]

\* RedisTaskQueue.dequeue_task: BRPOP takes the tail; it blocks while the
\* list is empty
dequeue_task(q) == [task_id |-> q[Len(q)], rest |-> SubSeq(q, 1, Len(q) - 1)]

\* The callers of process_task look at the workflow first: Worker.run
\* loops while not is_workflow_complete, the daemon scans for workflows
\* whose status is running.  While the workflow record is missing the
\* daemon finds nothing to do; Worker.run raises (NotFound).
CheckWorkflow(w) ==
  /\ W(w).pc = "idle"
  /\ Exists(wfRec) /\ wfRec.status = "running"
  /\ Set(w, [W(w) EXCEPT !.pc = "dequeue"])
  /\ UNCHANGED <<input, tasks, proc, calls, endpoints, redis, api, store, hist>>

\* claim_task, first command: BRPOP queue:<wf>
ClaimDequeue(w) ==
  /\ W(w).pc = "dequeue"
  /\ queue # <<>>
  /\ LET r == dequeue_task(queue) IN
       /\ queue' = r.rest
       /\ Set(w, [IdleWorker EXCEPT !.pc = "claim_get", !.task_id = r.task_id])
       /\ hist' = Bump(hist, "deq", r.task_id)
  /\ UNCHANGED <<input, tasks, proc, calls, endpoints, redis, api, wfRec, taskRec, wfTasks, graphMap, deps,
                 dependents>>

\* update_task_status, first command: GET task:<wf>:<task>
GetTask(w, from, to) ==
  /\ W(w).pc = from
  /\ W(w).task_id \in DOMAIN taskRec
  /\ Set(w, [W(w) EXCEPT !.pc = to, !.state = taskRec[W(w).task_id]])
  /\ UNCHANGED <<input, tasks, proc, calls, endpoints, redis, api, store, hist>>

\* an update that writes a record made anew from the task id
update_task_status_anew(state, status, output_refs, error) ==
  [TaskState(state.task_id, "") EXCEPT
     !.status = status,
     !.output_refs = IF output_refs # <<>> THEN output_refs[1] ELSE @,
     !.error = IF error # None THEN error ELSE @]

\* update_task_status: the record written back by SET task:<wf>:<task>.
\* The optional output_refs argument is <<>> for None and <<refs>> for a list.
update_task_status(state, status, output_refs, error) ==
  [state EXCEPT !.status = status,
                !.output_refs = IF output_refs # <<>> THEN output_refs[1] ELSE @,
                !.error = IF error # None THEN error ELSE @]

\* a SET that writes only where the key is still there
SetTaskIfExists(recs, task_id, state) ==
  [f \in DOMAIN recs |-> IF f = task_id THEN state ELSE recs[f]]

\* self._redis.set(key, updated.model_dump_json()): the key is written
\* whether or not it (or the workflow) is still there
SetTask(recs, task_id, state) ==
  [f \in DOMAIN recs \cup {task_id} |->
     IF f = task_id THEN state ELSE recs[f]]

ClaimGet(w) == GetTask(w, "claim_get", "claim_set")

\* claim_task, last command: SET task RUNNING; the snapshot is returned
ClaimSet(w) ==
  /\ W(w).pc = "claim_set"
  /\ LET updated == update_task_status(W(w).state, "running", <<>>, None) IN
       /\ taskRec' = SetTask(taskRec, W(w).task_id, updated)
       /\ Set(w, [W(w) EXCEPT !.pc = "execute", !.task = updated,
                               !.state = NoState])
  /\ hist' = Bump(hist, "claims", W(w).task_id)
  /\ UNCHANGED <<input, tasks, proc, calls, endpoints, redis, api, wfRec, wfTasks, graphMap, deps, dependents,
                 queue>>

\* ControlClient.execute answered {status: complete, output?}
ExecuteComplete(w) ==
  /\ W(w).pc = "execute"
  /\ LET output == IF W(w).task.node_key \in producers
                   THEN <<OutputRef(W(w).task_id)>> ELSE <<>>
     IN \* output_refs = [response.output] if response.output else []
        Set(w, [W(w) EXCEPT !.pc = "complete_get", !.task = NoState,
                            !.output_refs = output])
  /\ hist' = Bump(hist, "execs", W(w).task_id)
  /\ UNCHANGED <<input, tasks, proc, calls, endpoints, redis, api, store>>

\* ControlClient.execute answered {status: failed, error?}
ExecuteFailed(w) ==
  /\ W(w).pc = "execute"
  /\ \E e \in ServiceErrors :
       Set(w, [W(w) EXCEPT !.pc = "fail_get", !.task = NoState,
                           !.error = IF e # None THEN e
                                     ELSE "Service returned failed status"])
  /\ hist' = Bump(hist, "execs", W(w).task_id)
  /\ UNCHANGED <<input, tasks, proc, calls, endpoints, redis, api, store>>

(***************************************************************************)
(* WorkflowEngine.complete_task                                            *)
(***************************************************************************)
CompleteGet(w) == GetTask(w, "complete_get", "complete_set")

\* the thread's record at the top of `for dep_id in dependent_ids` (any
\* order): the next dependent, or past the loop _all_tasks_completed
LoopTop(r, remaining) ==
  IF remaining = {}
  THEN {[r EXCEPT !.pc = "tasks_wf", !.dependent_ids = {}, !.dep_id = NoTask,
                  !.state = NoState, !.unread = {}, !.all_completed = TRUE]}
  ELSE {[r EXCEPT !.dependent_ids = remaining \ {d}, !.dep_id = d,
                  !.state = NoState,
                  !.pc = IF r.output_refs # <<>> THEN "append_get" ELSE "srem"]
          : d \in remaining}

\* update_task_status(COMPLETED, output_refs): SET task; then
\* SMEMBERS dependents:<wf>:<task>
CompleteSet(w) ==
  /\ W(w).pc = "complete_set"
  /\ taskRec' = SetTask(taskRec, W(w).task_id,
                       update_task_status(W(w).state, "completed",
                                          <<W(w).output_refs>>, None))
  /\ \E r \in LoopTop(W(w), SMembers(dependents, W(w).task_id)) : Set(w, r)
  /\ hist' = Bump(hist, "completions", W(w).task_id)
  /\ UNCHANGED <<input, tasks, proc, calls, endpoints, redis, api, wfRec, wfTasks, graphMap, deps, dependents,
                 queue>>

\* _append_input_refs, first command: GET task:<wf>:<dep>
AppendGet(w) ==
  /\ W(w).pc = "append_get"
  /\ W(w).dep_id \in DOMAIN taskRec
  /\ Set(w, [W(w) EXCEPT !.pc = "append_set", !.state = taskRec[W(w).dep_id]])
  /\ UNCHANGED <<input, tasks, proc, calls, endpoints, redis, api, store, hist>>

\* _append_input_refs: the record written back
_append_input_refs(task, refs) ==
  [task EXCEPT !.input_refs = task.input_refs \o refs]

\* _append_input_refs, second command: SET task:<wf>:<dep>
AppendSet(w) ==
  /\ W(w).pc = "append_set"
  /\ taskRec' = SetTask(taskRec, W(w).dep_id,
                       _append_input_refs(W(w).state, W(w).output_refs))
  /\ Set(w, [W(w) EXCEPT !.pc = "srem", !.state = NoState])
  /\ UNCHANGED <<input, tasks, proc, calls, endpoints, redis, api, wfRec, wfTasks, graphMap, deps, dependents,
                 queue, hist>>

\* SREM deps:<wf>:<dep> task
Srem(w) ==
  /\ W(w).pc = "srem"
  /\ deps' = SRem(deps, W(w).dep_id, W(w).task_id)
  /\ Set(w, [W(w) EXCEPT !.pc = "scard"])
  /\ UNCHANGED <<input, tasks, proc, calls, endpoints, redis, api, wfRec, taskRec, wfTasks, graphMap, dependents,
                 queue, hist>>

\* SCARD deps:<wf>:<dep>; remaining == 0 decides the enqueue
Scard(w) ==
  /\ W(w).pc = "scard"
  /\ IF SCard(deps, W(w).dep_id) = 0
     THEN Set(w, [W(w) EXCEPT !.pc = "enqueue"])
     ELSE \E r \in LoopTop(W(w), W(w).dependent_ids) : Set(w, r)
  /\ UNCHANGED <<input, tasks, proc, calls, endpoints, redis, api, store, hist>>

\* enqueue_task(dep): LPUSH queue:<wf>
Enqueue(w) ==
  /\ W(w).pc = "enqueue"
  /\ queue' = enqueue_task(queue, W(w).dep_id)
  /\ hist' = Bump(Bump(hist, "enq", W(w).dep_id), "enqc", W(w).dep_id)
  /\ \E r \in LoopTop(W(w), W(w).dependent_ids) : Set(w, r)
  /\ UNCHANGED <<input, tasks, proc, calls, endpoints, redis, api, wfRec, taskRec, wfTasks, graphMap, deps,
                 dependents>>

\* get_workflow, first command of a store method: GET workflow:<wf>;
\* update_workflow_status keeps the record read, get_workflow_tasks only
\* verifies that the workflow exists
GetWorkflow(w, from, to, keep) ==
  /\ W(w).pc = from
  /\ Exists(wfRec)
  /\ Set(w, [W(w) EXCEPT !.pc = to,
                          !.workflow = IF keep THEN wfRec ELSE NoWorkflow])
  /\ UNCHANGED <<input, tasks, proc, calls, endpoints, redis, api, store, hist>>

\* _all_tasks_completed -> get_workflow_tasks: GET workflow (the workflow
\* must exist)
TasksWf(w) == GetWorkflow(w, "tasks_wf", "tasks_smembers", FALSE)

\* get_workflow_tasks: SMEMBERS workflow:<wf>:tasks; all() of an empty list
\* is True
TasksSmembers(w) ==
  /\ W(w).pc = "tasks_smembers"
  /\ Set(w, [W(w) EXCEPT !.unread = wfTasks, !.all_completed = TRUE,
                          !.pc = IF wfTasks = {} THEN "wf_get"
                                 ELSE "tasks_get"])
  /\ UNCHANGED <<input, tasks, proc, calls, endpoints, redis, api, store, hist>>

\* get_workflow_tasks: one GET per task of the index (any order); after
\* the last one all(t.status == COMPLETED) decides whether the workflow is
\* closed
TasksGet(w) ==
  /\ W(w).pc = "tasks_get"
  /\ \E t \in W(w).unread :
       /\ t \in DOMAIN taskRec
       /\ LET ok == W(w).all_completed /\ taskRec[t].status = "completed"
              left == W(w).unread \ {t}
          IN Set(w, IF left # {}
                    THEN [W(w) EXCEPT !.unread = left, !.all_completed = ok]
                    ELSE IF ok
                         THEN [W(w) EXCEPT !.unread = {}, !.all_completed = ok,
                                           !.pc = "wf_get"]
                         ELSE IdleWorker)
  /\ UNCHANGED <<input, tasks, proc, calls, endpoints, redis, api, store, hist>>

\* update_workflow_status: the record written back by SET workflow:<wf>
update_workflow_status(state, status, error) ==
  [state EXCEPT !.status = status, !.error = error]

\* update_workflow_status(COMPLETED), first command: GET workflow
WfGet(w) == GetWorkflow(w, "wf_get", "wf_set", TRUE)

\* update_workflow_status(COMPLETED), second command: SET workflow, whether
\* or not the key is still there; process_task returns
WfSet(w) ==
  /\ W(w).pc = "wf_set"
  /\ wfRec' = update_workflow_status(W(w).workflow, "completed", NoMessage)
  /\ Set(w, IdleWorker)
  /\ UNCHANGED <<input, tasks, proc, calls, endpoints, redis, api, taskRec, wfTasks, graphMap, deps, dependents,
                 queue, hist>>

(***************************************************************************)
(* WorkflowEngine.fail_task                                                *)
(***************************************************************************)
\* f"Task {task_id} failed: {error}"
FailMessage(task_id, error) == <<"Task ", task_id, " failed: ", error>>

FailGet(w) == GetTask(w, "fail_get", "fail_set")

\* update_task_status(FAILED, error=error): SET task
FailSet(w) ==
  /\ W(w).pc = "fail_set"
  /\ taskRec' = SetTask(taskRec, W(w).task_id,
                       update_task_status(W(w).state, "failed", <<>>,
                                          W(w).error))
  /\ Set(w, [W(w) EXCEPT !.pc = "failwf_get", !.state = NoState])
  /\ hist' = [hist EXCEPT !.failed = @ \cup {W(w).task_id}]
  /\ UNCHANGED <<input, tasks, proc, calls, endpoints, redis, api, wfRec, wfTasks, graphMap, deps, dependents,
                 queue>>

\* a fail_task that records the bare task error on the workflow
fail_task_workflow_bare(state, task_id, error) ==
  update_workflow_status(state, "failed", <<error>>)

\* the workflow record fail_task writes
fail_task_workflow(state, task_id, error) ==
  update_workflow_status(state, "failed", FailMessage(task_id, error))

\* update_workflow_status(FAILED, error=...), first command: GET workflow
FailWfGet(w) == GetWorkflow(w, "failwf_get", "failwf_set", TRUE)

\* update_workflow_status(FAILED, error=...), second command: SET
\* workflow, whether or not the key is still there; fail_task returns
FailWfSet(w) ==
  /\ W(w).pc = "failwf_set"
  /\ wfRec' = fail_task_workflow(W(w).workflow, W(w).task_id, W(w).error)
  /\ Set(w, IdleWorker)
  /\ hist' = [hist EXCEPT !.fails = 1]
  /\ UNCHANGED <<input, tasks, proc, calls, endpoints, redis, api, taskRec, wfTasks, graphMap, deps, dependents,
                 queue>>

\* is_workflow_complete: get_workflow raises WorkflowNotFoundError when
\* the record is missing
is_workflow_complete(state) ==
  IF ~Exists(state)
  THEN [error |-> "WorkflowNotFoundError", result |-> FALSE]
  ELSE [error |-> None, result |-> state.status \in {"completed", "failed"}]

Claim(w) == CheckWorkflow(w) \/ ClaimDequeue(w) \/ ClaimGet(w) \/ ClaimSet(w)

Complete(w) ==
  \/ CompleteGet(w) \/ CompleteSet(w)
  \/ AppendGet(w) \/ AppendSet(w) \/ Srem(w) \/ Scard(w) \/ Enqueue(w)
  \/ TasksWf(w) \/ TasksSmembers(w) \/ TasksGet(w) \/ WfGet(w) \/ WfSet(w)

Fail(w) == FailGet(w) \/ FailSet(w) \/ FailWfGet(w) \/ FailWfSet(w)

\* a worker whose services always answer complete
WorkerOk(w) == Claim(w) \/ ExecuteComplete(w) \/ Complete(w)

WorkerStep(w) == WorkerOk(w) \/ ExecuteFailed(w) \/ Fail(w)

\* the worker process dies between two commands
Crash(w) ==
  /\ W(w).pc \notin {"idle", "dequeue", "crashed"}
  /\ hist.crashes < MaxCrashes
  /\ Set(w, [W(w) EXCEPT !.pc = "crashed"])
  /\ hist' = [hist EXCEPT !.crashes = @ + 1]
  /\ UNCHANGED <<input, tasks, proc, calls, endpoints, redis, api, store>>

Next == Admission \/ \E w \in Workers : WorkerStep(w)

Spec == Init /\ [][Next]_vars

\* every service call answers complete; threads keep taking steps
NextLive == Admission \/ \E w \in Workers : WorkerOk(w)

SpecLive ==
  /\ Init /\ [][NextLive]_vars
  /\ WF_vars(Admission)
  /\ \A w \in Workers : WF_vars(WorkerOk(w))

\* a worker may crash; the live threads keep taking steps
NextCrash == Next \/ \E w \in Workers : Crash(w)

SpecCrash ==
  /\ Init /\ [][NextCrash]_vars
  /\ WF_vars(Admission)
  /\ \A w \in Workers : WF_vars(WorkerStep(w))

(***************************************************************************)
(* DELETE /workflows/{id} while process_task calls are in flight: the      *)
(* commands of the handler and the commands of the workers interleave.     *)
(***************************************************************************)
\* get_task, get_workflow on a key that is gone: TaskNotFoundError or
\* WorkflowNotFoundError, which process_task does not catch; so does
\* is_workflow_complete in Worker.run before the next process_task
NotFound(w) ==
  /\ \/ W(w).pc \in {"claim_get", "complete_get", "fail_get"}
        /\ W(w).task_id \notin DOMAIN taskRec
     \/ W(w).pc = "append_get" /\ W(w).dep_id \notin DOMAIN taskRec
     \/ W(w).pc = "tasks_get"
        /\ \E t \in W(w).unread : t \notin DOMAIN taskRec
     \/ W(w).pc \in {"tasks_wf", "wf_get", "failwf_get"} /\ ~Exists(wfRec)
     \/ W(w).pc = "idle" /\ is_workflow_complete(wfRec).error # None
  /\ Set(w, [IdleWorker EXCEPT !.pc = "raised"])
  /\ UNCHANGED <<input, tasks, proc, calls, endpoints, redis, api, store, hist>>

InitRace ==
  /\ blueprint = BpChain
  /\ producers \in {{}, Range(blueprint.nodes)}
  /\ request = NoRequest
  /\ api = IdleApi
  /\ InitState

NextRace ==
  \/ Admission
  \/ \E w \in Workers : WorkerStep(w)
  \/ \E w \in Workers : NotFound(w)
  \/ DeleteWorkflow

SpecRace == InitRace /\ [][NextRace]_vars

(***************************************************************************)
(* complete_task called again: one worker thread, started when            *)
(* start_workflow has returned, which besides process_task calls           *)
(* engine.complete_task(workflow_id, task_id, output_refs) for a task      *)
(* that is already completed.                                              *)
(***************************************************************************)
\* Upper bound on the repeated complete_task calls.
MaxReplays == 1

ReplayWorker == CHOOSE w \in Workers : TRUE

\* engine.complete_task(wf, t, output_refs) on a completed task: the call
\* checks its arguments only and goes on to update_task_status
Replay(w, t) ==
  /\ W(w).pc = "idle"
  /\ t \in DOMAIN taskRec
  /\ taskRec[t].status = "completed"
  /\ hist.replays < MaxReplays
  /\ Set(w, [IdleWorker EXCEPT !.pc = "complete_get", !.task_id = t,
                               !.output_refs = taskRec[t].output_refs])
  /\ hist' = [hist EXCEPT !.replays = @ + 1]
  /\ UNCHANGED <<input, tasks, proc, calls, endpoints, redis, api, store>>

\* process_task, once start_workflow has returned
SerialWorker == api.pc = "done" /\ WorkerOk(ReplayWorker)

NextReplay ==
  \/ Admission
  \/ SerialWorker
  \/ \E t \in AllTasks : Replay(ReplayWorker, t)

SpecReplay == Init /\ [][NextReplay]_vars

(***************************************************************************)
(* The store and the queue by key name, for several workflows.  The code  *)
(* builds a key as an f-string that joins a prefix and the ids with ":".   *)
(* A key is modelled as the list of the pieces between the ":" of that     *)
(* string: an id that contains ":" gives one piece per part, so two keys   *)
(* are the same list exactly when the two strings are the same.            *)
(***************************************************************************)
WorkflowIds == {"wf-1", "wf-2"}
TaskIds == {"task-1", "task-2"}

\* Upper bound on the length of a queue in the key-level specification.
MaxQueue == 1

\* _task_id_from_node_key with the id as one string
TaskIdString(node_key) == "task_" \o Sha256Hex8[node_key]

\* The ids of the isolation specification.  No code of the store, the queue
\* or the engine restricts the characters of an id: the second workflow id
\* and the last task id contain ":".
IsolationWorkflowIds == {"wf-1", "wf-1:sub"}
IsolationGraph == _build_graph(BpFanIn)
IsolationTaskIds ==
  {TaskIdString(k) : k \in Range(IsolationGraph.all_nodes)}
    \cup {"sub:" \o TaskIdString("d:run")}

\* the output_refs argument of complete_task: None or a list of one
\* DataReference (<<>> for None, <<refs>> for a list)
IsolationOutputs ==
  {<<>>, << <<[protocol |-> "s3", uri |-> "out", format |-> "json"]>> >>}

\* the pieces of an id between its ":"
Parts(id) ==
  CASE id = "wf-1:sub" -> <<"wf-1", "sub">>
    [] id = "sub:" \o TaskIdString("d:run") -> <<"sub", TaskIdString("d:run")>>
    [] OTHER -> <<id>>

_workflow_key(workflow_id) == <<"workflow">> \o Parts(workflow_id)
_workflow_tasks_key(workflow_id) ==
  <<"workflow">> \o Parts(workflow_id) \o <<"tasks">>
_task_key(workflow_id, task_id) ==
  <<"task">> \o Parts(workflow_id) \o Parts(task_id)
_queue_key(workflow_id) == <<"queue">> \o Parts(workflow_id)
_deps_key(workflow_id, task_id) ==
  <<"deps">> \o Parts(workflow_id) \o Parts(task_id)
_dependents_key(workflow_id, task_id) ==
  <<"dependents">> \o Parts(workflow_id) \o Parts(task_id)
_graph_key(workflow_id) == <<"graph">> \o Parts(workflow_id)

\* the key that _append_input_refs builds itself
\* (key = f"task:{workflow_id}:{task_id}")
_append_input_refs_key(workflow_id, task_id) ==
  <<"task">> \o Parts(workflow_id) \o Parts(task_id)

\* the orders in which SCAN or SMEMBERS can return the members of S
Orders(S) == {o \in [1..Cardinality(S) -> S] : Range(o) = S}

\* EXISTS, SET, DEL, and the value of a list or set key (empty when absent)
KExists(r, k) == k \in DOMAIN r
KSet(r, k, v) == [x \in DOMAIN r \cup {k} |-> IF x = k THEN v ELSE r[x]]
KDel(r, k) == [x \in DOMAIN r \ {k} |-> r[x]]
KList(r, k) == IF k \in DOMAIN r THEN r[k] ELSE <<>>
KMembers(r, k) == IF k \in DOMAIN r THEN r[k] ELSE {}
\* a list or set that becomes empty is no longer a key
KPut(r, k, v, empty) == IF v = empty THEN KDel(r, k) ELSE KSet(r, k, v)

RECURSIVE KDelAll(_, _)
KDelAll(r, ks) ==
  IF ks = {} THEN r
  ELSE LET k == CHOOSE x \in ks : TRUE IN KDelAll(KDel(r, k), ks \ {k})

\* Upper bound on the operations performed in the key-level specification.
MaxOps == 6

\* the key-level operations leave the single-workflow variables alone; proc
\* counts the operations performed
KeysFrame ==
  /\ proc.ops < MaxOps
  /\ proc' = [proc EXCEPT !.ops = @ + 1]
  /\ UNCHANGED <<input, tasks, calls, endpoints, api, store, wk, hist>>

\* RedisStateStore.create_workflow
StoreCreateWorkflow(wf) ==
  /\ KeysFrame
  /\ ~KExists(redis, _workflow_key(wf))
  /\ redis' = KSet(redis, _workflow_key(wf), WorkflowState("pending", NoMessage))

\* create_task on the store r: SET task, SADD index
KCreateTask(r, wf, t, node_key) ==
  SAdd(KSet(r, _task_key(wf, t), TaskState(t, node_key)),
       _workflow_tasks_key(wf), t)

\* RedisStateStore.create_task: the workflow exists, the task does not
StoreCreateTask(wf, t) ==
  /\ KeysFrame
  /\ KExists(redis, _workflow_key(wf))
  /\ ~KExists(redis, _task_key(wf, t))
  /\ redis' = KCreateTask(redis, wf, t, "a:run")

\* initialize_workflow, first loop, from the i-th node on: create_task
\* (ValueError when the task key exists) and HSET graph:<wf>, node by node
RECURSIVE KCreateTasks(_, _, _, _)
KCreateTasks(r, wf, nodes, i) ==
  IF i > Len(nodes) THEN [error |-> None, r |-> r]
  ELSE LET node_key == nodes[i]
           task_id == TaskIdString(node_key)
           hash == IF KExists(r, _graph_key(wf)) THEN r[_graph_key(wf)] ELSE <<>>
       IN IF KExists(r, _task_key(wf, task_id))
          THEN [error |-> "Task already exists", r |-> r]
          ELSE KCreateTasks(KSet(KCreateTask(r, wf, task_id, node_key),
                                 _graph_key(wf), HSet(hash, node_key, task_id)),
                            wf, nodes, i + 1)

\* initialize_workflow, second loop, from the i-th node on: SADD deps:<wf>:
\* <task> for every dependency, SADD dependents:<wf>:<task> for every next
\* node
RECURSIVE KTrackDependencies(_, _, _, _)
KTrackDependencies(r, wf, g, i) ==
  IF i > Len(g.all_nodes) THEN r
  ELSE LET node_key == g.all_nodes[i]
           task_id == TaskIdString(node_key)
           with_deps ==
             SAddAll(r, _deps_key(wf, task_id),
                     {TaskIdString(d) : d \in Range(g.dependencies[node_key])})
           with_next ==
             SAddAll(with_deps, _dependents_key(wf, task_id),
                     {TaskIdString(n) : n \in Range(g.next_nodes[node_key])})
       IN KTrackDependencies(with_next, wf, g, i + 1)

\* WorkflowEngine.initialize_workflow: create_workflow (the id must be new),
\* the tasks and the graph hash, then the deps and dependents sets; a
\* ValueError of create_task leaves what was written before it
EngineInitialize(wf, g) ==
  /\ KeysFrame
  /\ ~KExists(redis, _workflow_key(wf))
  /\ LET created ==
           KCreateTasks(KSet(redis, _workflow_key(wf),
                             WorkflowState("pending", NoMessage)),
                        wf, g.all_nodes, 1)
     IN redis' = IF created.error # None THEN created.r
                 ELSE KTrackDependencies(created.r, wf, g, 1)

\* RedisTaskQueue.enqueue_task
QueueEnqueue(wf, t) ==
  /\ KeysFrame
  /\ Len(KList(redis, _queue_key(wf))) < MaxQueue
  /\ redis' = KSet(redis, _queue_key(wf),
                   enqueue_task(KList(redis, _queue_key(wf)), t))

\* RedisTaskQueue.dequeue_task on a queue that is not empty
QueueDequeue(wf) ==
  /\ KeysFrame
  /\ KList(redis, _queue_key(wf)) # <<>>
  /\ redis' = KPut(redis, _queue_key(wf),
                   dequeue_task(KList(redis, _queue_key(wf))).rest, <<>>)

\* RedisTaskQueue.clear_queue
QueueClear(wf) ==
  /\ KeysFrame
  /\ redis' = KDel(redis, _queue_key(wf))

\* update_task_status on the store r: TaskNotFoundError leaves r as it is
KUpdateTask(r, wf, t, status, output_refs, error) ==
  IF KExists(r, _task_key(wf, t))
  THEN KSet(r, _task_key(wf, t),
            update_task_status(r[_task_key(wf, t)], status, output_refs, error))
  ELSE r

\* update_workflow_status on the store r: WorkflowNotFoundError leaves r
KUpdateWorkflow(r, wf, status, error) ==
  IF KExists(r, _workflow_key(wf))
  THEN KSet(r, _workflow_key(wf),
            update_workflow_status(r[_workflow_key(wf)], status, error))
  ELSE r

\* WorkflowEngine.claim_task: dequeue, then update_task_status(RUNNING)
EngineClaim(wf) ==
  /\ KeysFrame
  /\ KList(redis, _queue_key(wf)) # <<>>
  /\ LET d == dequeue_task(KList(redis, _queue_key(wf)))
     IN redis' = KUpdateTask(KPut(redis, _queue_key(wf), d.rest, <<>>),
                             wf, d.task_id, "running", <<>>, None)

\* complete_task, the loop over the dependents in the order of the list
\* dependent_ids, from the i-th on.  `if output_refs:` _append_input_refs
\* (get_task raises TaskNotFoundError and ends the call; else SET on the
\* key built by hand); SREM deps:<wf>:<dep>; SCARD; enqueue_task when no
\* dependency remains.
RECURSIVE complete_task_dependents(_, _, _, _, _, _)
complete_task_dependents(r, wf, t, dependent_ids, i, output_refs) ==
  IF i > Len(dependent_ids) THEN [error |-> None, r |-> r]
  ELSE LET dep_id == dependent_ids[i]
           append == output_refs # <<>> /\ output_refs[1] # <<>>
           appended ==
             IF append
             THEN KSet(r, _append_input_refs_key(wf, dep_id),
                       _append_input_refs(r[_task_key(wf, dep_id)],
                                          output_refs[1]))
             ELSE r
           removed == SRem(appended, _deps_key(wf, dep_id), t)
           remaining == SCard(removed, _deps_key(wf, dep_id))
           enqueued ==
             IF remaining = 0
             THEN KSet(removed, _queue_key(wf),
                       enqueue_task(KList(removed, _queue_key(wf)), dep_id))
             ELSE removed
       IN IF append /\ ~KExists(r, _task_key(wf, dep_id))
          THEN [error |-> "TaskNotFoundError", r |-> r]
          ELSE complete_task_dependents(enqueued, wf, t, dependent_ids, i + 1,
                                        output_refs)

\* WorkflowEngine.complete_task: update_task_status(COMPLETED, output_refs)
\* (TaskNotFoundError writes nothing); the loop over SMEMBERS dependents:
\* <wf>:<task>; then, unless the loop raised, _all_tasks_completed:
\* get_workflow_tasks raises when the workflow record or a task of the index
\* is missing, and the workflow is completed when every task of the index
\* is
EngineComplete(wf, t, output_refs) ==
  /\ KeysFrame
  /\ KExists(redis, _task_key(wf, t))
  /\ LET updated == KUpdateTask(redis, wf, t, "completed", output_refs, None)
     IN \E dependent_ids \in Orders(SMembers(updated, _dependents_key(wf, t))) :
          LET loop == complete_task_dependents(updated, wf, t, dependent_ids,
                                               1, output_refs)
              r == loop.r
              index == KMembers(r, _workflow_tasks_key(wf))
          IN redis' = IF /\ loop.error = None
                         /\ KExists(r, _workflow_key(wf))
                         /\ \A i \in index : KExists(r, _task_key(wf, i))
                         /\ \A i \in index :
                              r[_task_key(wf, i)].status = "completed"
                      THEN KUpdateWorkflow(r, wf, "completed", NoMessage)
                      ELSE r

\* WorkflowEngine.fail_task
EngineFail(wf, t, error) ==
  /\ KeysFrame
  /\ KExists(redis, _task_key(wf, t))
  /\ redis' = KUpdateWorkflow(KUpdateTask(redis, wf, t, "failed", <<>>, error),
                              wf, "failed", FailMessage(t, error))

\* RedisStateStore.delete_workflow: every task of the index, the index, the
\* workflow record
StoreDelete(wf) ==
  /\ KeysFrame
  /\ redis' = KDel(KDel(KDelAll(redis,
                                {_task_key(wf, t) :
                                   t \in KMembers(redis, _workflow_tasks_key(wf))}),
                        _workflow_tasks_key(wf)),
                   _workflow_key(wf))

\* an operation addressed to workflow wf: create_workflow, create_task,
\* enqueue, dequeue, clear_queue, claim, complete, fail, delete_workflow
StoreOp(wf) ==
  \/ StoreCreateWorkflow(wf)
  \/ \E t \in IsolationTaskIds : StoreCreateTask(wf, t)
  \/ \E t \in IsolationTaskIds : QueueEnqueue(wf, t)
  \/ QueueDequeue(wf)
  \/ QueueClear(wf)
  \/ EngineClaim(wf)
  \/ \E t \in IsolationTaskIds, output_refs \in IsolationOutputs :
       EngineComplete(wf, t, output_refs)
  \/ \E t \in IsolationTaskIds, e \in ServiceErrors : EngineFail(wf, t, e)
  \/ StoreDelete(wf)

NextKeys ==
  \/ \E wf \in IsolationWorkflowIds : StoreCreateWorkflow(wf)
  \/ \E wf \in IsolationWorkflowIds, t \in IsolationTaskIds :
       StoreCreateTask(wf, t)
  \/ \E wf \in IsolationWorkflowIds : EngineInitialize(wf, IsolationGraph)
  \/ \E wf \in IsolationWorkflowIds, t \in IsolationTaskIds :
       QueueEnqueue(wf, t)
  \/ \E wf \in IsolationWorkflowIds : QueueDequeue(wf)
  \/ \E wf \in IsolationWorkflowIds : QueueClear(wf)
  \/ \E wf \in IsolationWorkflowIds : EngineClaim(wf)
  \/ \E wf \in IsolationWorkflowIds, t \in IsolationTaskIds,
        output_refs \in IsolationOutputs : EngineComplete(wf, t, output_refs)
  \/ \E wf \in IsolationWorkflowIds, t \in IsolationTaskIds,
        e \in ServiceErrors : EngineFail(wf, t, e)
  \/ \E wf \in IsolationWorkflowIds : StoreDelete(wf)

InitKeys ==
  /\ blueprint = BpSingle
  /\ producers = {}
  /\ request = NoRequest
  /\ api = IdleApi
  /\ NothingPersisted
  /\ redis = <<>>
  /\ proc = [pc |-> "keys", ops |-> 0]
  /\ calls = <<>>

SpecKeys == InitKeys /\ [][NextKeys]_vars

(***************************************************************************)
(* The task queue alone: enqueue_task, dequeue_task and queue_length on    *)
(* the queues of several workflows.  proc remembers, per workflow, the     *)
(* tokens passed to enqueue_task and the tokens dequeue_task returned.     *)
(***************************************************************************)
\* Upper bound on the enqueue_task calls per workflow in SpecQueue.
MaxEnqueues == 3

\* RedisTaskQueue.queue_length: LLEN
queue_length(q) == Len(q)

\* Upper bound on the count argument of peek_queue.
MaxCount == 3

\* a list from its last element to its first
Reversed(l) == [i \in 1..Len(l) |-> l[Len(l) + 1 - i]]

\* Redis LRANGE key start stop on the list l (element 1 is the head, index
\* 0): a negative index counts from the tail, a start before the head is
\* the head, a stop past the tail is the tail
LRange(l, start, stop) ==
  LET n == Len(l)
      from == IF start < 0
              THEN (IF n + start < 0 THEN 0 ELSE n + start) ELSE start
      to == IF stop < 0 THEN n + stop ELSE (IF stop > n - 1 THEN n - 1 ELSE stop)
  IN IF from > to \/ from >= n THEN <<>> ELSE SubSeq(l, from + 1, to + 1)

\* RedisTaskQueue.peek_queue: reversed(LRANGE key -count -1); -count is 0
\* for count 0
peek_queue(q, count) ==
  IF count < 0
  THEN [error |-> "count must be non-negative", result |-> <<>>]
  ELSE [error |-> None, result |-> Reversed(LRange(q, 0 - count, 0 - 1))]

QueueClient ==
  [pc |-> "queue",
   enqueued |-> [wf \in WorkflowIds |-> <<>>],
   dequeued |-> [wf \in WorkflowIds |-> <<>>],
   returned |-> NoTask,
   peek |-> [workflow_id |-> "wf-1", count |-> 0, error |-> None,
             result |-> <<>>]]

QueueFrame == UNCHANGED <<input, tasks, endpoints, api, store, wk, calls, hist>>

\* enqueue_task(workflow_id, task_id)
EnqueueTask(wf, t) ==
  /\ QueueFrame
  /\ Len(proc.enqueued[wf]) < MaxEnqueues
  /\ redis' = KSet(redis, _queue_key(wf),
                   enqueue_task(KList(redis, _queue_key(wf)), t))
  /\ proc' = [proc EXCEPT !.enqueued[wf] = Append(@, t)]

\* dequeue_task(workflow_id, timeout) on a list that is not empty
DequeueTask(wf) ==
  /\ QueueFrame
  /\ KList(redis, _queue_key(wf)) # <<>>
  /\ LET d == dequeue_task(KList(redis, _queue_key(wf)))
     IN /\ redis' = KPut(redis, _queue_key(wf), d.rest, <<>>)
        /\ proc' = [proc EXCEPT !.dequeued[wf] = Append(@, d.task_id),
                                !.returned = d.task_id]

\* dequeue_task(workflow_id, timeout > 0) on an empty list: BRPOP times
\* out and the call returns None
DequeueTaskEmpty(wf) ==
  /\ QueueFrame
  /\ KList(redis, _queue_key(wf)) = <<>>
  /\ proc' = [proc EXCEPT !.returned = NoTask]
  /\ UNCHANGED redis

\* peek_queue(workflow_id, count); proc.peek is the last call and its answer
PeekQueue(wf, count) ==
  /\ QueueFrame
  /\ LET k == peek_queue(KList(redis, _queue_key(wf)), count)
     IN proc' = [proc EXCEPT !.peek = [workflow_id |-> wf, count |-> count,
                                       error |-> k.error, result |-> k.result]]
  /\ UNCHANGED redis

NextQueue ==
  \/ \E wf \in WorkflowIds, count \in (0 - 1)..MaxCount : PeekQueue(wf, count)
  \/ \E wf \in WorkflowIds, t \in TaskIds : EnqueueTask(wf, t)
  \/ \E wf \in WorkflowIds : DequeueTask(wf)
  \/ \E wf \in WorkflowIds : DequeueTaskEmpty(wf)

InitQueue ==
  /\ blueprint = BpSingle
  /\ producers = {}
  /\ request = NoRequest
  /\ api = IdleApi
  /\ NothingPersisted
  /\ redis = <<>>
  /\ proc = QueueClient
  /\ calls = <<>>

SpecQueue == InitQueue /\ [][NextQueue]_vars

(***************************************************************************)
(* Worker.process_task and Worker.run, call by call, on services that may  *)
(* answer anything.  One thread, so each engine call is one step.  A node  *)
(* key is the sequence of its characters.                                  *)
(***************************************************************************)
\* Upper bound on the length of a node key in SpecWorker.
MaxKeyLen == 3

\* Upper bound on the times a service answers "running" to a status poll.
MaxPolls == 2

KeyChars == {"a", ":", " "}
NodeKeyStrings == UNION {[1..n -> KeyChars] : n \in 1..MaxKeyLen}

\* `not s or not s.strip()`
Blank(s) == \A i \in DOMAIN s : s[i] = " "

\* index of the first c in s, 0 when `c not in s`
Find(s, c) ==
  IF \E i \in DOMAIN s : s[i] = c
  THEN CHOOSE i \in DOMAIN s : s[i] = c /\ \A j \in 1..(i - 1) : s[j] # c
  ELSE 0

\* a parser that only looks for the separator
_parse_node_key_lax(node_key) ==
  LET i == Find(node_key, ":")
  IN IF i = 0
     THEN [error |-> "Invalid node_key format", container_name |-> <<>>,
           method |-> <<>>]
     ELSE [error |-> None, container_name |-> SubSeq(node_key, 1, i - 1),
           method |-> SubSeq(node_key, i + 1, Len(node_key))]

\* Worker._parse_node_key: node_key.split(":", 1), both parts not empty;
\* the WorkerError message without the key it quotes
_parse_node_key(node_key) ==
  LET i == Find(node_key, ":")
  IN IF i = 0 \/ SubSeq(node_key, 1, i - 1) = <<>>
              \/ SubSeq(node_key, i + 1, Len(node_key)) = <<>>
     THEN [error |-> "Invalid node_key format", container_name |-> <<>>,
           method |-> <<>>]
     ELSE [error |-> None, container_name |-> SubSeq(node_key, 1, i - 1),
           method |-> SubSeq(node_key, i + 1, Len(node_key))]

\* Worker._get_endpoint: the WorkerError message without the name it quotes
_get_endpoint(directory, container_name) ==
  IF container_name \notin DOMAIN directory THEN "Endpoint not found" ELSE None

\* the endpoint directories a Worker is constructed with
ServiceEndpoint == [address |-> "10.0.0.1", port |-> 50051]
Directories == {<<>>, [n \in {<<"a">>} |-> ServiceEndpoint]}

\* what the control endpoints of a service can answer
ClientErrors ==
  {"Connection failed", "Request timed out", "Request failed", "HTTP 500",
   "Invalid response"}
ServiceOutput == [protocol |-> "s3", uri |-> "bucket/out", format |-> "json"]
\* ExecuteResponse.status: Literal["complete", "running", "failed"]
ExecuteStatuses == {"complete", "running", "failed"}
ExecuteResponses ==
  [status : ExecuteStatuses, task_id : {None, "svc-1"},
   output : {<<>>, <<ServiceOutput>>}, error : {None} \cup ServiceErrors]
\* the JSON bodies a service answers /control/execute with: the responses,
\* and bodies with a status outside the Literal
ExecuteBodies ==
  [status : ExecuteStatuses \cup {"paused"}, task_id : {None, "svc-1"},
   output : {<<>>, <<ServiceOutput>>}, error : {None} \cup ServiceErrors]

\* ExecuteResponse.model_validate(data) inside execute's try: a body that
\* does not validate raises ControlClientError("Invalid response: ...")
ExecuteResponse_model_validate(data) ==
  IF data.status \in ExecuteStatuses
  THEN [error |-> None, response |-> data]
  ELSE [error |-> "Invalid response", response |-> data]
StatusResponses ==
  [status : {"running", "complete", "failed"}, error : {None} \cup ServiceErrors]

\* an entry of the call history
Call(op, result, refs) == [op |-> op, result |-> result, refs |-> refs]

\* the thread before its first step: Worker(engine, client, endpoints) and
\* a call of run (entry "run") or of process_task (entry "process_task"),
\* or WorkerDaemon.run (entry "daemon"), which makes its own Workers
WorkerThread(entry, wf, timeout, directory) ==
  [pc |-> CASE entry = "run" -> "run_check"
            [] entry = "daemon" -> "daemon_scan"
            [] OTHER -> "claim",
   entry |-> entry, workflow_id |-> wf, timeout |-> timeout,
   endpoints |-> directory, claimed |-> FALSE, task |-> NoState,
   container_name |-> <<>>, method |-> <<>>, service_task_id |-> None,
   answered |-> None, output_refs |-> <<>>, error |-> None, polls |-> 0,
   result |-> None,
   workflows |-> <<>>, scanned |-> <<>>, invoked |-> <<>>,
   processed_any |-> FALSE, slept |-> FALSE, passes |-> 0,
   running |-> TRUE]

WorkerFrame == UNCHANGED <<input, tasks, endpoints, api, store, wk, hist>>

\* WorkflowEngine.is_workflow_complete on the store r
IsWorkflowComplete(r, wf) ==
  r[_workflow_key(wf)].status \in {"completed", "failed"}

\* WorkflowEngine.complete_task on the store r, for a task without
\* dependents: the task is completed with its output_refs; the workflow is,
\* when every task of the index is completed
complete_task(r, wf, t, output_refs) ==
  LET r1 == KSet(r, _task_key(wf, t),
                 update_task_status(r[_task_key(wf, t)], "completed",
                                    <<output_refs>>, None))
      index == KMembers(r1, _workflow_tasks_key(wf))
  IN IF \A i \in index : r1[_task_key(wf, i)].status = "completed"
     THEN KUpdateWorkflow(r1, wf, "completed", NoMessage)
     ELSE r1

\* WorkflowEngine.fail_task on the store r
fail_task(r, wf, t, error) ==
  KUpdateWorkflow(KSet(r, _task_key(wf, t),
                       update_task_status(r[_task_key(wf, t)], "failed",
                                          <<>>, error)),
                  wf, "failed", FailMessage(t, error))

\* process_task returns `processed` to its caller: the loop of Worker.run
\* (which stops on an empty queue unless timeout > 0), the loop of the
\* daemon, or the caller of process_task
Return(p, processed) ==
  CASE p.entry = "run" ->
         [p EXCEPT !.result = IF processed THEN "True" ELSE "False",
                   !.pc = IF processed \/ p.timeout > 0 THEN "run_check"
                          ELSE "returned"]
    [] p.entry = "daemon" ->
         [p EXCEPT !.result = IF processed THEN "True" ELSE "False",
                   !.pc = "daemon_next",
                   !.processed_any = @ \/ processed]
    [] OTHER ->
         [p EXCEPT !.result = IF processed THEN "True" ELSE "False",
                   !.pc = "returned"]

\* process_task raises: the exception leaves Worker.run; the daemon logs it
Raise(p, exception) ==
  IF p.entry = "daemon"
  THEN [p EXCEPT !.result = exception, !.pc = "daemon_next"]
  ELSE [p EXCEPT !.result = exception, !.pc = "raised"]

\* Worker.run: while not is_workflow_complete(workflow_id)
RunCheck ==
  /\ WorkerFrame
  /\ proc.pc = "run_check"
  /\ proc' = IF IsWorkflowComplete(redis, proc.workflow_id)
             THEN [proc EXCEPT !.pc = "returned"]
             ELSE [proc EXCEPT !.pc = "claim"]
  /\ UNCHANGED <<redis, calls>>

\* process_task: engine.claim_task(workflow_id, timeout).  BRPOP with
\* timeout 0 blocks while the list is empty; with timeout > 0 it returns
\* None after the timeout and process_task returns False.
ClaimTask ==
  /\ WorkerFrame
  /\ proc.pc = "claim"
  /\ LET wf == proc.workflow_id
         q == KList(redis, _queue_key(wf))
         p == [proc EXCEPT !.claimed = FALSE, !.task = NoState, !.polls = 0,
                           !.result = None, !.error = None,
                           !.answered = None,
                           !.output_refs = <<>>, !.service_task_id = None,
                           !.container_name = <<>>, !.method = <<>>]
     IN IF q = <<>>
        THEN /\ proc.timeout > 0
             /\ proc' = Return(p, FALSE)
             /\ UNCHANGED redis
        ELSE LET d == dequeue_task(q)
                 r1 == KPut(redis, _queue_key(wf), d.rest, <<>>)
             IN IF ~KExists(r1, _task_key(wf, d.task_id))
                THEN /\ redis' = r1
                     /\ proc' = Raise(p, "TaskNotFoundError")
                ELSE /\ redis' = KUpdateTask(r1, wf, d.task_id, "running", <<>>, None)
                     /\ proc' = [p EXCEPT !.pc = "resolve", !.claimed = TRUE,
                                          !.task = redis'[_task_key(wf, d.task_id)]]
  /\ calls' = <<>>

\* process_task: _parse_node_key(task.node_key), _get_endpoint(container)
Resolve ==
  /\ WorkerFrame
  /\ proc.pc = "resolve"
  /\ LET k == _parse_node_key(proc.task.node_key)
     IN proc' = IF k.error # None
                THEN [proc EXCEPT !.pc = "fail", !.error = k.error]
                ELSE IF _get_endpoint(proc.endpoints, k.container_name) # None
                     THEN [proc EXCEPT !.pc = "fail",
                             !.error = _get_endpoint(proc.endpoints,
                                                     k.container_name)]
                     ELSE [proc EXCEPT !.pc = "execute",
                                       !.container_name = k.container_name,
                                       !.method = k.method]
  /\ UNCHANGED <<redis, calls>>

\* process_task dispatching on the ExecuteResponse
HandleResponse(p, response) ==
  CASE response.status = "failed" ->
         [p EXCEPT !.pc = "fail",
                   !.error = IF response.error # None THEN response.error
                             ELSE "Service returned failed status"]
    [] response.status = "complete" ->
         [p EXCEPT !.pc = "complete", !.output_refs = response.output]
    [] response.status = "running" ->
         [p EXCEPT !.pc = "poll", !.service_task_id = response.task_id]
    [] OTHER ->
         [p EXCEPT !.pc = "fail", !.error = "Unknown status"]

\* client.execute(base_url, method, workflow_id, task_id, inputs);
\* proc.answered is the status of the body the service sent.
\* ExecuteRequest rejects a blank method with a pydantic ValidationError
\* before anything is sent; a transport error, a status >= 400 and a body
\* that is not an ExecuteResponse are ControlClientErrors
Execute ==
  /\ WorkerFrame
  /\ proc.pc = "execute"
  /\ IF Blank(proc.method)
     THEN /\ proc' = Raise(proc, "ValidationError")
          /\ UNCHANGED calls
     ELSE \/ \E e \in ClientErrors :
               /\ calls' = Append(calls, Call("execute", e, proc.container_name))
               /\ proc' = [proc EXCEPT !.pc = "fail", !.error = e]
          \/ \E data \in ExecuteBodies :
               LET v == ExecuteResponse_model_validate(data)
                   p == [proc EXCEPT !.answered = data.status]
               IN IF v.error # None
                  THEN /\ calls' = Append(calls, Call("execute", v.error,
                                                      proc.container_name))
                       /\ proc' = [p EXCEPT !.pc = "fail", !.error = v.error]
                  ELSE /\ calls' = Append(calls,
                                          Call("execute", v.response.status,
                                               proc.container_name))
                       /\ proc' = HandleResponse(p, v.response)
  /\ UNCHANGED redis

\* a poll loop that takes any answer but "failed" for the end
PollNextEager(p, status) ==
  IF status.status = "failed"
  THEN [p EXCEPT !.pc = "fail",
                 !.error = IF status.error # None THEN status.error
                           ELSE "Service task failed"]
  ELSE [p EXCEPT !.pc = "output"]

\* _poll_until_complete dispatching on the StatusResponse
PollNext(p, status) ==
  CASE status.status = "complete" -> [p EXCEPT !.pc = "output"]
    [] status.status = "failed" ->
         [p EXCEPT !.pc = "fail",
                   !.error = IF status.error # None THEN status.error
                             ELSE "Service task failed"]
    [] OTHER -> [p EXCEPT !.pc = "poll", !.polls = @ + 1]

\* _poll_until_complete: client.get_status(base_url, service_task_id),
\* which raises ValueError when the task id is None or blank
PollStatus ==
  /\ WorkerFrame
  /\ proc.pc = "poll"
  /\ IF proc.service_task_id = None
     THEN /\ proc' = Raise(proc, "ValueError")
          /\ UNCHANGED calls
     ELSE \/ \E e \in ClientErrors :
               /\ calls' = Append(calls, Call("get_status", e, <<>>))
               /\ proc' = [proc EXCEPT !.pc = "fail", !.error = e]
          \/ \E status \in StatusResponses :
               /\ status.status = "running" => proc.polls < MaxPolls
               /\ calls' = Append(calls, Call("get_status", status.status, <<>>))
               /\ proc' = PollNext(proc, status)
  /\ UNCHANGED redis

\* _poll_until_complete: client.get_output(base_url, service_task_id)
GetOutput ==
  /\ WorkerFrame
  /\ proc.pc = "output"
  /\ \/ \E e \in ClientErrors :
          /\ calls' = Append(calls, Call("get_output", e, <<>>))
          /\ proc' = [proc EXCEPT !.pc = "fail", !.error = e]
     \/ /\ calls' = Append(calls, Call("get_output", "ok", <<ServiceOutput>>))
        /\ proc' = [proc EXCEPT !.pc = "complete",
                                !.output_refs = <<ServiceOutput>>]
  /\ UNCHANGED redis

\* process_task: engine.complete_task(workflow_id, task_id, output_refs)
CompleteTask ==
  /\ WorkerFrame
  /\ proc.pc = "complete"
  /\ redis' = complete_task(redis, proc.workflow_id, proc.task.task_id,
                            proc.output_refs)
  /\ calls' = Append(calls, Call("complete_task", "ok", proc.output_refs))
  /\ proc' = Return(proc, TRUE)

\* process_task: engine.fail_task(workflow_id, task_id, error)
FailTask ==
  /\ WorkerFrame
  /\ proc.pc = "fail"
  /\ redis' = fail_task(redis, proc.workflow_id, proc.task.task_id, proc.error)
  /\ calls' = Append(calls, Call("fail_task", proc.error, <<>>))
  /\ proc' = Return(proc, TRUE)

ProcessTask ==
  \/ ClaimTask \/ Resolve \/ Execute \/ PollStatus \/ GetOutput
  \/ CompleteTask \/ FailTask

NextWorker == RunCheck \/ ProcessTask

\* the store r and a workflow of two tasks in the given status, the first
\* `queued` of them on the queue, the first one with the given node key
WorkerStore(r, wf, status, node_key, queued) ==
  LET r1 == KSet(r, _workflow_key(wf), WorkflowState(status, NoMessage))
      r2 == KSet(r1, _task_key(wf, "task-1"), TaskState("task-1", node_key))
      r3 == KSet(r2, _task_key(wf, "task-2"),
                 TaskState("task-2", <<"a", ":", "a">>))
      r4 == KSet(r3, _workflow_tasks_key(wf), {"task-1", "task-2"})
  IN CASE queued = 0 -> r4
       [] queued = 1 -> KSet(r4, _queue_key(wf), <<"task-1">>)
       [] OTHER -> KSet(r4, _queue_key(wf), <<"task-2", "task-1">>)

InitWorker ==
  /\ blueprint = BpSingle
  /\ producers = {}
  /\ request = NoRequest
  /\ api = IdleApi
  /\ NothingPersisted
  /\ \E status \in {"running", "completed", "failed"},
        node_key \in NodeKeyStrings, queued \in 0..2 :
       redis = WorkerStore(<<>>, "wf-1", status, node_key, queued)
  /\ \E entry \in {"run", "process_task"}, timeout \in {0, 1},
        directory \in Directories :
       proc = WorkerThread(entry, "wf-1", timeout, directory)
  /\ calls = <<>>

SpecWorker == InitWorker /\ [][NextWorker]_vars

\* the thread keeps taking the steps it can take
SpecWorkerLive == SpecWorker /\ WF_vars(NextWorker)

(***************************************************************************)
(* WorkerDaemon.run: scan for running workflows, one process_task per      *)
(* workflow with timeout 0, rescan or sleep.                               *)
(***************************************************************************)
\* Upper bound on the scan passes that are followed.
MaxPasses == 2

_endpoints_key(workflow_id) == <<"endpoints">> \o Parts(workflow_id)

\* WorkerDaemon.load_endpoints: HGETALL endpoints:<wf>, {} when absent
load_endpoints(r, wf) ==
  IF KExists(r, _endpoints_key(wf)) THEN r[_endpoints_key(wf)] ELSE <<>>

\* WorkerDaemon.get_running_workflows: the keys workflow:<id> (no further
\* ":") whose record has status running
get_running_workflows(r) ==
  {k[2] : k \in {x \in DOMAIN r : Len(x) = 2 /\ x[1] = "workflow"
                                   /\ r[x].status = "running"}}

\* WorkerDaemon.stop, called by the signal handler at any point of run
Stop ==
  /\ WorkerFrame
  /\ proc.entry = "daemon"
  /\ proc.running
  /\ proc.pc # "daemon_stopped"
  /\ proc' = [proc EXCEPT !.running = FALSE]
  /\ UNCHANGED <<redis, calls>>

\* while self.running: workflows = self.get_running_workflows(); the
\* loop is left only when stop() has cleared the flag
DaemonScan ==
  /\ WorkerFrame
  /\ proc.pc = "daemon_scan"
  /\ ~proc.running \/ proc.passes < MaxPasses
  /\ IF ~proc.running
     THEN proc' = [proc EXCEPT !.pc = "daemon_stopped"]
     ELSE \E workflows \in Orders(get_running_workflows(redis)) :
            proc' = [proc EXCEPT !.pc = "daemon_next", !.passes = @ + 1,
                                 !.workflows = workflows,
                                 !.scanned = workflows, !.invoked = <<>>,
                                 !.processed_any = FALSE, !.slept = FALSE]
  /\ UNCHANGED <<redis, calls>>

\* for workflow_id in workflows: `if not self.running: break`, then
\* process_workflow(workflow_id), which skips a workflow without endpoints
\* and else calls Worker(...).process_task(workflow_id, timeout=0); after
\* the loop the daemon sleeps if no task was processed
DaemonNext ==
  /\ WorkerFrame
  /\ proc.pc = "daemon_next"
  /\ IF proc.workflows = <<>> \/ ~proc.running
     THEN proc' = [proc EXCEPT !.pc = IF proc.processed_any
                                      THEN "daemon_scan" ELSE "daemon_sleep"]
     ELSE LET wf == Head(proc.workflows)
              directory == load_endpoints(redis, wf)
          IN proc' = IF DOMAIN directory = {}
                     THEN [proc EXCEPT !.workflows = Tail(@)]
                     ELSE [proc EXCEPT !.workflows = Tail(@), !.pc = "claim",
                                       !.workflow_id = wf, !.timeout = 0,
                                       !.endpoints = directory,
                                       !.invoked = Append(@, wf)]
  /\ UNCHANGED <<redis, calls>>

\* time.sleep(self.poll_interval)
DaemonSleep ==
  /\ WorkerFrame
  /\ proc.pc = "daemon_sleep"
  /\ proc' = [proc EXCEPT !.pc = "daemon_scan", !.slept = TRUE]
  /\ UNCHANGED <<redis, calls>>

NextDaemon == Stop \/ DaemonScan \/ DaemonNext \/ DaemonSleep \/ ProcessTask

\* the store r and the endpoint hash of a workflow, when it has endpoints
WithEndpoints(r, wf, directory) ==
  IF DOMAIN directory = {} THEN r ELSE KSet(r, _endpoints_key(wf), directory)

InitDaemon ==
  /\ blueprint = BpSingle
  /\ producers = {}
  /\ request = NoRequest
  /\ api = IdleApi
  /\ NothingPersisted
  /\ \E status \in [WorkflowIds -> {"pending", "running", "completed", "failed"}],
        queued \in [WorkflowIds -> 0..1], directory \in [WorkflowIds -> Directories] :
       redis = WithEndpoints(
                 WithEndpoints(
                   WorkerStore(
                     WorkerStore(<<>>, "wf-1", status["wf-1"],
                                 <<"a", ":", "a">>, queued["wf-1"]),
                     "wf-2", status["wf-2"], <<"a", ":", "a">>, queued["wf-2"]),
                   "wf-1", directory["wf-1"]),
                 "wf-2", directory["wf-2"])
  /\ proc = WorkerThread("daemon", None, 0, <<>>)
  /\ calls = <<>>

SpecDaemon == InitDaemon /\ [][NextDaemon]_vars

\* the daemon keeps taking the steps it can take; nothing obliges the
\* signal to arrive
DaemonStep == DaemonScan \/ DaemonNext \/ DaemonSleep \/ ProcessTask
SpecDaemonLive == SpecDaemon /\ WF_vars(DaemonStep)

(***************************************************************************)
(* The state store call by call, with the calls that fail, and the GET and *)
(* DELETE handlers of the REST API above it.  proc is the last call made   *)
(* and how it ended.                                                       *)
(***************************************************************************)
StoreIds == {"wf-1"}

Result(r, error) == [store |-> r, error |-> error]

\* RedisStateStore.create_workflow
store_create_workflow(r, wf) ==
  IF KExists(r, _workflow_key(wf))
  THEN Result(r, "ValueError")
  ELSE Result(KSet(r, _workflow_key(wf), WorkflowState("pending", NoMessage)),
              None)

\* a create_task that does not look at the workflow
store_create_task_unchecked(r, wf, t) ==
  IF KExists(r, _task_key(wf, t))
  THEN Result(r, "ValueError")
  ELSE Result(KSet(KSet(r, _task_key(wf, t), TaskState(t, "a:run")),
                   _workflow_tasks_key(wf),
                   KMembers(r, _workflow_tasks_key(wf)) \cup {t}),
              None)

\* RedisStateStore.create_task: get_workflow, EXISTS task, SET task, SADD
store_create_task(r, wf, t) ==
  IF ~KExists(r, _workflow_key(wf))
  THEN Result(r, "WorkflowNotFoundError")
  ELSE IF KExists(r, _task_key(wf, t))
       THEN Result(r, "ValueError")
       ELSE Result(KSet(KSet(r, _task_key(wf, t), TaskState(t, "a:run")),
                        _workflow_tasks_key(wf),
                        KMembers(r, _workflow_tasks_key(wf)) \cup {t}),
                   None)

\* RedisStateStore.get_workflow
store_get_workflow(r, wf) ==
  IF ~KExists(r, _workflow_key(wf))
  THEN Result(r, "WorkflowNotFoundError")
  ELSE Result(r, None)

\* RedisStateStore.update_workflow_status: get_workflow, SET
store_update_workflow_status(r, wf, status, error) ==
  IF store_get_workflow(r, wf).error # None
  THEN store_get_workflow(r, wf)
  ELSE Result(KSet(r, _workflow_key(wf),
                   update_workflow_status(r[_workflow_key(wf)], status, error)),
              None)

\* RedisStateStore.get_task
store_get_task(r, wf, t) ==
  IF ~KExists(r, _task_key(wf, t))
  THEN Result(r, "TaskNotFoundError")
  ELSE Result(r, None)

\* RedisStateStore.get_workflow_tasks: get_workflow, SMEMBERS, get_task each
store_get_workflow_tasks(r, wf) ==
  IF store_get_workflow(r, wf).error # None
  THEN store_get_workflow(r, wf)
  ELSE IF \E t \in KMembers(r, _workflow_tasks_key(wf)) :
            store_get_task(r, wf, t).error # None
       THEN Result(r, "TaskNotFoundError")
       ELSE Result(r, None)

\* an update that creates the record it does not find
store_update_task_status_upsert(r, wf, t, status) ==
  Result(KSet(r, _task_key(wf, t),
              update_task_status(IF KExists(r, _task_key(wf, t))
                                 THEN r[_task_key(wf, t)]
                                 ELSE TaskState(t, "a:run"),
                                 status, <<>>, None)),
         None)

\* RedisStateStore.update_task_status: get_task, SET
store_update_task_status(r, wf, t, status) ==
  IF store_get_task(r, wf, t).error # None
  THEN store_get_task(r, wf, t)
  ELSE Result(KSet(r, _task_key(wf, t),
                   update_task_status(r[_task_key(wf, t)], status, <<>>, None)),
              None)

\* RedisStateStore.delete_workflow: every task of the index, the index, the
\* workflow record
store_delete_workflow(r, wf) ==
  Result(KDel(KDel(KDelAll(r, {_task_key(wf, t) :
                                 t \in KMembers(r, _workflow_tasks_key(wf))}),
                   _workflow_tasks_key(wf)),
              _workflow_key(wf)),
         None)

\* the client before its first call; `deleted`: DELETE has answered 200
\* for the workflow and it has not been created again
StoreClient ==
  [pc |-> "store", op |-> None, workflow_id |-> None, task_id |-> None,
   error |-> None, status_code |-> 0, deleted |-> FALSE]

StoreFrame == UNCHANGED <<input, tasks, endpoints, api, store, wk, calls, hist>>

\* a call of the store: what it wrote and how it ended
StoreCall(op, wf, t, result) ==
  /\ StoreFrame
  /\ redis' = result.store
  /\ proc' = [proc EXCEPT !.op = op, !.workflow_id = wf, !.task_id = t,
                          !.error = result.error, !.status_code = 0,
                          !.deleted = IF op = "create_workflow" THEN FALSE ELSE @]

CallCreateWorkflow(wf) ==
  StoreCall("create_workflow", wf, None, store_create_workflow(redis, wf))

CallCreateTask(wf, t) ==
  StoreCall("create_task", wf, t, store_create_task(redis, wf, t))

CallGetWorkflow(wf) ==
  StoreCall("get_workflow", wf, None, store_get_workflow(redis, wf))

CallUpdateWorkflowStatus(wf, status) ==
  StoreCall("update_workflow_status", wf, None,
            store_update_workflow_status(redis, wf, status, NoMessage))

CallGetWorkflowTasks(wf) ==
  StoreCall("get_workflow_tasks", wf, None, store_get_workflow_tasks(redis, wf))

CallGetTask(wf, t) ==
  StoreCall("get_task", wf, t, store_get_task(redis, wf, t))

CallUpdateTaskStatus(wf, t, status) ==
  StoreCall("update_task_status", wf, t,
            store_update_task_status(redis, wf, t, status))

\* a request of the REST API: what it wrote and the status code answered
ApiCall(op, wf, t, r, status_code) ==
  /\ StoreFrame
  /\ redis' = r
  /\ proc' = [proc EXCEPT !.op = op, !.workflow_id = wf, !.task_id = t,
                          !.error = None, !.status_code = status_code,
                          !.deleted = @ \/ (op = "DELETE" /\ status_code = 200)]

\* GET /workflows/{id}: engine.get_workflow_status
ApiGetWorkflowStatus(wf) ==
  ApiCall("GET", wf, None, redis,
          IF store_get_workflow(redis, wf).error = "WorkflowNotFoundError"
          THEN 404 ELSE 200)

\* GET /workflows/{id}/tasks: engine.get_workflow_status, then
\* engine.get_all_tasks, which WorkflowEngine does not have
ApiGetWorkflowTasks(wf) ==
  ApiCall("GET tasks", wf, None, redis,
          IF store_get_workflow(redis, wf).error = "WorkflowNotFoundError"
          THEN 404 ELSE 500)

\* GET /workflows/{id}/tasks/{task_id}: state_store.get_task
ApiGetTaskStatus(wf, t) ==
  ApiCall("GET task", wf, t, redis,
          IF store_get_task(redis, wf, t).error # None THEN 404 ELSE 200)

\* DELETE /workflows/{id}: engine.get_workflow_status, then
\* state_store.delete_workflow, DEL endpoints:<wf>, clear_queue
ApiDeleteWorkflow(wf) ==
  IF store_get_workflow(redis, wf).error = "WorkflowNotFoundError"
  THEN ApiCall("DELETE", wf, None, redis, 404)
  ELSE ApiCall("DELETE", wf, None,
               KDel(KDel(store_delete_workflow(redis, wf).store,
                         _endpoints_key(wf)),
                    _queue_key(wf)),
               200)

NextStore ==
  \/ \E wf \in StoreIds : CallCreateWorkflow(wf)
  \/ \E wf \in StoreIds, t \in TaskIds : CallCreateTask(wf, t)
  \/ \E wf \in StoreIds : CallGetWorkflow(wf)
  \/ \E wf \in StoreIds, status \in {"running", "failed"} :
       CallUpdateWorkflowStatus(wf, status)
  \/ \E wf \in StoreIds : CallGetWorkflowTasks(wf)
  \/ \E wf \in StoreIds, t \in TaskIds : CallGetTask(wf, t)
  \/ \E wf \in StoreIds, t \in TaskIds, status \in {"running", "completed"} :
       CallUpdateTaskStatus(wf, t, status)
  \/ \E wf \in StoreIds : ApiGetWorkflowStatus(wf)
  \/ \E wf \in StoreIds : ApiGetWorkflowTasks(wf)
  \/ \E wf \in StoreIds, t \in TaskIds : ApiGetTaskStatus(wf, t)
  \/ \E wf \in StoreIds : ApiDeleteWorkflow(wf)

InitStore ==
  /\ blueprint = BpSingle
  /\ producers = {}
  /\ request = NoRequest
  /\ api = IdleApi
  /\ NothingPersisted
  /\ redis = <<>>
  /\ proc = StoreClient
  /\ calls = <<>>

SpecStore == InitStore /\ [][NextStore]_vars

(***************************************************************************)
(* The service side: TaskManager of the concurrent service template.      *)
(* Every method runs under self._lock, so each call is one step; the       *)
(* calls of the service's threads interleave in any order.                 *)
(***************************************************************************)
SvcTaskIds == {"svc-1"}
SvcOutputs == {"out-1", "out-2"}
ProgressArgs == {0 - 1, 50, 101}

\* min(max(progress, 0), 100)
ClampProgress(progress) ==
  IF progress < 0 THEN 0 ELSE IF progress > 100 THEN 100 ELSE progress

\* register_task: the dict entry is written anew
register_task(ts, task_id) ==
  [t \in DOMAIN ts \cup {task_id} |->
     IF t = task_id
     THEN [status |-> "running", progress |-> 0, output |-> None,
           error |-> None]
     ELSE ts[t]]

update_progress(ts, task_id, progress) ==
  IF task_id \in DOMAIN ts
  THEN [ts EXCEPT ![task_id].progress = ClampProgress(progress)]
  ELSE ts

\* TaskManager.complete_task
tm_complete_task(ts, task_id, output) ==
  IF task_id \in DOMAIN ts
  THEN [ts EXCEPT ![task_id].status = "complete", ![task_id].progress = 100,
                  ![task_id].output = output]
  ELSE ts

\* TaskManager.fail_task
tm_fail_task(ts, task_id, error) ==
  IF task_id \in DOMAIN ts
  THEN [ts EXCEPT ![task_id].status = "failed", ![task_id].error = error]
  ELSE ts

\* get_status: None (found FALSE) or the status, progress and error
get_status(ts, task_id) ==
  IF task_id \notin DOMAIN ts
  THEN [found |-> FALSE, status |-> None, progress |-> 0, error |-> None]
  ELSE [found |-> TRUE, status |-> ts[task_id].status,
        progress |-> ts[task_id].progress, error |-> ts[task_id].error]

\* get_output: the output of a complete task, else None
get_output(ts, task_id) ==
  IF task_id \notin DOMAIN ts THEN None
  ELSE IF ts[task_id].status # "complete" THEN None
  ELSE ts[task_id].output

\* the threads of the service as one caller record: the last call, its
\* answer, and what was observed so far (reported: the ids get_status has
\* reported complete; passed: the outputs given to complete_task)
TaskManagerClient ==
  [pc |-> "task_manager", op |-> "none", task_id |-> "svc-1",
   status |-> get_status(<<>>, "svc-1"), output |-> None,
   reported |-> {}, passed |-> [t \in SvcTaskIds |-> {}]]

TaskManagerFrame ==
  UNCHANGED <<input, endpoints, redis, api, store, wk, calls, hist>>

TmCall(op, t) == [proc EXCEPT !.op = op, !.task_id = t]

RegisterTask(t) ==
  /\ TaskManagerFrame
  /\ tasks' = register_task(tasks, t)
  /\ proc' = TmCall("register_task", t)

UpdateProgress(t, progress) ==
  /\ TaskManagerFrame
  /\ tasks' = update_progress(tasks, t, progress)
  /\ proc' = TmCall("update_progress", t)

TmCompleteTask(t, output) ==
  /\ TaskManagerFrame
  /\ tasks' = tm_complete_task(tasks, t, output)
  /\ proc' = [TmCall("complete_task", t) EXCEPT !.passed[t] = @ \cup {output}]

TmFailTask(t, error) ==
  /\ TaskManagerFrame
  /\ tasks' = tm_fail_task(tasks, t, error)
  /\ proc' = TmCall("fail_task", t)

GetStatus(t) ==
  /\ TaskManagerFrame
  /\ LET r == get_status(tasks, t)
     IN proc' = [TmCall("get_status", t) EXCEPT
                   !.status = r,
                   !.reported = IF r.status = "complete" THEN @ \cup {t} ELSE @]
  /\ UNCHANGED tasks

GetTaskOutput(t) ==
  /\ TaskManagerFrame
  /\ proc' = [TmCall("get_output", t) EXCEPT !.output = get_output(tasks, t)]
  /\ UNCHANGED tasks

NextTaskManager ==
  \/ \E t \in SvcTaskIds : RegisterTask(t)
  \/ \E t \in SvcTaskIds, progress \in ProgressArgs : UpdateProgress(t, progress)
  \/ \E t \in SvcTaskIds, output \in SvcOutputs : TmCompleteTask(t, output)
  \/ \E t \in SvcTaskIds, error \in ServiceErrors : TmFailTask(t, error)
  \/ \E t \in SvcTaskIds : GetStatus(t)
  \/ \E t \in SvcTaskIds : GetTaskOutput(t)

InitTaskManager ==
  /\ blueprint = BpSingle
  /\ producers = {}
  /\ request = NoRequest
  /\ api = IdleApi
  /\ NothingPersisted
  /\ redis = <<>>
  /\ proc = TaskManagerClient
  /\ calls = <<>>

SpecTaskManager == InitTaskManager /\ [][NextTaskManager]_vars

\* one client at a time: the REST handlers, or direct calls of the parser
\* and the engine, followed by a delete or a second initialize_workflow
InitApi ==
  /\ blueprint \in Blueprints
  /\ producers = {}
  /\ InitState
  /\ \/ request = NoRequest /\ api = IdleApi
     \/ request \in Requests
        /\ api = [IdleApi EXCEPT !.pc = "post", !.route = "http"]

NextApi == Admission \/ Api

SpecApi == InitApi /\ [][NextApi]_vars

\* the parser alone, on every small blueprint
InitParser ==
  \* 1..MaxNodes nodes, connections to any of the first MaxNodes node names
  \* (targets outside the blueprint included)
  /\ \E n \in 1..MaxNodes :
       \E c \in [Range(SubSeq(NodeNames, 1, n)) ->
                   SUBSET Range(SubSeq(NodeNames, 1, MaxNodes))] :
         blueprint = ParserBlueprint(n, c)
  /\ producers = {}
  /\ request = NoRequest
  /\ api = IdleApi
  /\ InitState

SpecParser == InitParser /\ [][ParseBlueprint]_vars


(***************************************************************************)
(* Properties                                                              *)
(***************************************************************************)
TaskOf(k) == _task_id_from_node_key(k)

\* the graph predecessors of a task of the admitted workflow
Preds(t) ==
  UNION {{TaskOf(d) : d \in Range(api.graph.dependencies[k])} :
           k \in {x \in DOMAIN api.graph.dependencies : TaskOf(x) = t}}

Status(t) == IF t \in DOMAIN taskRec THEN taskRec[t].status ELSE None

Count(q, t) == Cardinality({i \in DOMAIN q : q[i] = t})

IsContiguousSubSeq(sub, s) ==
  \E i \in 0..(Len(s) - Len(sub)) : SubSeq(s, i + 1, i + Len(sub)) = sub

\* a worker is inside complete_task(t), before the end of the dependents loop
InCompleteLoop(t) ==
  \E w \in Workers :
    /\ W(w).task_id = t
    /\ W(w).pc \in {"complete_get", "complete_set", "append_get", "append_set",
                    "srem", "scard", "enqueue"}

\* the blueprint's connections have no directed cycle
RECURSIVE ReachableFrom(_, _)
ReachableFrom(bp, seen) ==
  LET more == UNION {Range(bp.connected_to[k]) : k \in seen} \cap Range(bp.nodes)
  IN IF more \subseteq seen THEN seen ELSE ReachableFrom(bp, seen \cup more)

Acyclic(bp) ==
  \A k \in Range(bp.nodes) :
    k \notin ReachableFrom(bp, Range(bp.connected_to[k]) \cap Range(bp.nodes))

Admitted == api.pc \notin {"submit", "rejected"}

AllCompleted ==
  /\ Exists(wfRec) /\ wfRec.status = "completed"
  /\ \A t \in wfTasks : Status(t) = "completed"

\* C1: the complete_task calls of the predecessors of a task with two or
\* more predecessors put it on the queue exactly once: never twice, and not
\* zero times once every predecessor's complete_task has run its loop.
C1_FanInExactlyOnce ==
  \A d \in AllTasks :
    Cardinality(Preds(d)) >= 2 =>
      /\ hist.enqc[d] <= 1
      /\ (\A p \in Preds(d) : hist.completions[p] > 0 /\ ~InCompleteLoop(p))
           => hist.enq[d] >= 1

\* C2: when start_workflow or complete_task puts a task on the queue, the
\* task has no remaining dependency and every predecessor has status
\* completed; a claimed task's predecessors have all completed.
C2_DependencyOrder ==
  /\ [][\A t \in AllTasks :
          hist.enq'[t] > hist.enq[t] =>
            /\ SMembers(deps, t) = {}
            /\ \A p \in Preds(t) : Status(p) = "completed"]_vars
  /\ [](\A t \in AllTasks :
          hist.claims[t] > 0 => \A p \in Preds(t) : hist.completions[p] > 0)

\* C3: the snapshot claim_task returns for a task contains the output_refs
\* of every predecessor as a contiguous part of input_refs.
C3_OutputsPropagated ==
  \A w \in Workers :
    W(w).pc = "execute" =>
      \A p \in Preds(W(w).task_id) :
        IsContiguousSubSeq(taskRec[p].output_refs, W(w).task.input_refs)

\* C4: each task is claimed by at most one claim_task call, executed at
\* most once and completed at most once.
C4_UniqueClaimant ==
  \A t \in AllTasks :
    hist.claims[t] <= 1 /\ hist.execs[t] <= 1 /\ hist.completions[t] <= 1

\* C5: every token put on the queue is either still on the queue or was
\* returned by exactly one dequeue_task call: none is returned twice, none
\* is lost.
C5_QueueDelivery ==
  \A t \in AllTasks : hist.enq[t] = hist.deq[t] + Count(queue, t)

\* two workers hold the two tokens that were on the queue together
C5_Witness ==
  /\ W(1).pc = "claim_get" /\ W(2).pc = "claim_get"
  /\ W(1).task_id # W(2).task_id
  /\ hist.deq[W(1).task_id] = 1 /\ hist.deq[W(2).task_id] = 1

\* C6: a completed workflow has only completed tasks.
C6_CompletedMeansAllCompleted ==
  (Exists(wfRec) /\ wfRec.status = "completed") =>
    \A t \in wfTasks : Status(t) = "completed"

\* is_workflow_complete returns True
WorkflowComplete ==
  /\ is_workflow_complete(wfRec).error = None
  /\ is_workflow_complete(wfRec).result

\* C7: once the workflow is completed or failed, its status and its error
\* never change again.
C7_TerminalIsFinal == [][WorkflowComplete => wfRec' = wfRec]_vars

\* C8: with services that always answer complete and threads that keep
\* running, a blueprint the parser accepts is admitted and its workflow
\* eventually is completed with all of its tasks completed.
C8_Progress == <>(api.pc = "rejected") \/ <>AllCompleted

\* C9: after a worker crash, a workflow of an acyclic blueprint still
\* reaches a terminal state as long as another worker is alive.
C9_CrashSafety ==
  (Admitted /\ Acyclic(blueprint) /\ hist.crashes > 0
     /\ \E w \in Workers : W(w).pc # "crashed") ~> WorkflowComplete

\* C10: fail_task(t, e) writes task t as failed with error e, then writes
\* the workflow as failed with error "Task <t> failed: <e>"; once a
\* fail_task call has returned, is_workflow_complete is true.
C10_FailTask ==
  /\ [][\A w \in Workers :
          /\ (W(w).pc = "fail_set" /\ wk'[w].pc = "failwf_get") =>
               /\ taskRec'[W(w).task_id].status = "failed"
               /\ taskRec'[W(w).task_id].error = W(w).error
          /\ (W(w).pc = "failwf_set" /\ wk'[w].pc = "idle") =>
               /\ wfRec'.status = "failed"
               /\ wfRec'.error = <<"Task ", W(w).task_id, " failed: ", W(w).error>>
               /\ WorkflowComplete']_vars
  /\ [](hist.fails > 0 => WorkflowComplete)

\* a fail_task call has returned: the task and the workflow are failed
C10_Witness ==
  /\ hist.fails > 0
  /\ wfRec.status = "failed"
  /\ \E t \in wfTasks :
       /\ Status(t) = "failed" /\ taskRec[t].error = "Invalid input"
       /\ wfRec.error = <<"Task ", t, " failed: ", "Invalid input">>

\* the direct and transitive dependents of a task of the admitted workflow
RECURSIVE DescendantKeys(_)
DescendantKeys(seen) ==
  LET more == UNION {Range(api.graph.next_nodes[k]) :
                       k \in seen \cap DOMAIN api.graph.next_nodes}
  IN IF more \subseteq seen THEN seen ELSE DescendantKeys(seen \cup more)

Descendants(t) ==
  UNION {{TaskOf(d) : d \in DescendantKeys(Range(api.graph.next_nodes[k]))} :
           k \in {x \in DOMAIN api.graph.next_nodes : TaskOf(x) = t}}

\* C11: once fail_task has written a task as failed, no direct or
\* transitive dependent of it is put on the queue or leaves status pending.
C11_NoDependentAfterFailure ==
  [][\A t \in hist.failed : \A d \in Descendants(t) :
       /\ hist.enq'[d] = hist.enq[d]
       /\ Status(d) = "pending" => taskRec'[d].status = "pending"]_vars

\* the task status changes of the lifecycle
LifecycleStep(from, to) ==
  \/ from = to
  \/ from = "pending" /\ to = "running"
  \/ from = "running" /\ to \in {"completed", "failed"}

\* C12: a task's status only moves pending -> running -> completed or
\* pending -> running -> failed; completed and failed are final and a
\* running task never returns to pending.
C12_LifecycleMonotone ==
  [][\A t \in DOMAIN taskRec \cap DOMAIN taskRec' :
       LifecycleStep(taskRec[t].status, taskRec'[t].status)]_vars
\* C13: the parser returns no graph that has a directed cycle, whether or
\* not a start node reaches the cycle.
C13_NoCycleReturned == api.pc = "initialize" => Acyclic(blueprint)

\* C14: a blueprint whose connection targets all exist and whose connections
\* have no directed cycle is accepted by parse_json.
C14_AcyclicAccepted ==
  (api.pc # "submit" /\ _validate_connections(blueprint) = None
     /\ Acyclic(blueprint))
    => (api.pc = "initialize" /\ api.error = None)

\* the diamond a -> b, a -> c, b -> d, c -> d was parsed and accepted
C14_Witness ==
  /\ api.pc = "initialize"
  /\ blueprint.nodes = <<"a:run", "b:run", "c:run", "d:run">>
  /\ blueprint.connected_to["a:run"] = <<"b:run", "c:run">>
  /\ blueprint.connected_to["b:run"] = <<"d:run">>
  /\ blueprint.connected_to["c:run"] = <<"d:run">>
  /\ blueprint.connected_to["d:run"] = <<>>
  /\ api.graph.start_nodes = <<"a:run">>
\* the POST /workflows handler has answered
Responded == api.route = "http" /\ api.pc = "responded"

StoreEmpty ==
  /\ ~Exists(wfRec) /\ taskRec = <<>> /\ wfTasks = {} /\ graphMap = <<>>
  /\ deps = <<>> /\ dependents = <<>> /\ queue = <<>> /\ endpoints = <<>>

\* C15: when POST /workflows answers 400 or 422, nothing of the workflow is
\* persisted: no workflow record, task, endpoint directory, dependency set,
\* graph map or queue.
C15_RejectedLeavesNothing ==
  (Responded /\ api.response.status_code \in {400, 422}) => StoreEmpty

\* the request of the handler is a valid one: blueprint, dockerinfo, inputs
ValidRequest ==
  /\ parse_json(blueprint).error = None
  /\ dockerinfo_parse_json(request.dockerinfo).error = None
  /\ \A i \in DOMAIN request.inputs : DataReferenceValid(request.inputs[i])

RootTasks == {t \in wfTasks : Preds(t) = {}}

\* C16: POST /workflows with a valid blueprint and dockerinfo answers 200
\* {workflow_id, status: "running"}; then the workflow is running, there is
\* one pending task per graph node, exactly the root tasks are on the queue
\* once each and the endpoint directory is persisted.
C16_SubmitStartsWorkflow ==
  (Responded /\ ValidRequest) =>
    /\ api.response = [status_code |-> 200, detail |-> <<"running">>]
    /\ Exists(wfRec) /\ wfRec.status = "running"
    /\ wfTasks = {TaskOf(k) : k \in Range(blueprint.nodes)}
    /\ \A t \in wfTasks : Status(t) = "pending"
    /\ \A t \in wfTasks : Count(queue, t) = IF t \in RootTasks THEN 1 ELSE 0
    /\ endpoints = dockerinfo_parse_json(request.dockerinfo).endpoints

\* C17: once submit_workflow's call start_workflow(workflow_id,
\* initial_inputs) is over, every root task has initial_inputs as its
\* input_refs and every other task has none.
C17_InitialInputsAttached ==
  (Responded /\ ValidRequest) =>
    \A t \in wfTasks :
      taskRec[t].input_refs =
        IF t \in RootTasks THEN api.initial_inputs ELSE <<>>

\* C18: a second initialize_workflow with the same workflow id and graph
\* succeeds and leaves one pending task per node, the node -> task map and
\* the dependency and dependent sets of the graph.
C18_InitializeIdempotent ==
  api.pc = "reinitialized" =>
    /\ api.error = None
    /\ wfTasks = {TaskOf(k) : k \in Range(blueprint.nodes)}
    /\ graphMap = [k \in Range(blueprint.nodes) |-> TaskOf(k)]

\* C19: after DELETE /workflows/{id} answered success, nothing of the
\* workflow remains: workflow record, tasks, task index, deps and dependents
\* sets, graph map, endpoint directory and queue.
C19_DeleteRemovesAll ==
  (api.pc = "deleted" /\ api.response.status_code = 200) => StoreEmpty
\* what the store holds for a workflow: its record, its task index, the
\* records of the tasks of the index and its queue (<<>>: no such key)
ViewOf(r, wf) ==
  [workflow |-> IF KExists(r, _workflow_key(wf))
                THEN <<r[_workflow_key(wf)]>> ELSE <<>>,
   index |-> KMembers(r, _workflow_tasks_key(wf)),
   tasks |-> [t \in KMembers(r, _workflow_tasks_key(wf)) |->
                IF KExists(r, _task_key(wf, t))
                THEN <<r[_task_key(wf, t)]>> ELSE <<>>],
   queue |-> KList(r, _queue_key(wf))]

\* C20: an operation addressed to one workflow leaves the workflow record,
\* the task records, the task index and the queue of every other workflow
\* unchanged, also when both workflows use the same task ids.
C20_WorkflowIsolation ==
  [][\A a \in IsolationWorkflowIds : StoreOp(a) =>
       \A b \in IsolationWorkflowIds \ {a} :
         ViewOf(redis', b) = ViewOf(redis, b)]_vars

\* C21: in every queue the tokens dequeue_task has returned are, in order,
\* the first tokens passed to enqueue_task, and queue_length is the number
\* of tokens enqueued and not yet dequeued.
C21_QueueFifo ==
  proc.pc = "queue" =>
    \A wf \in WorkflowIds :
      LET e == proc.enqueued[wf]
          d == proc.dequeued[wf]
      IN /\ Len(d) <= Len(e)
         /\ d = SubSeq(e, 1, Len(d))
         /\ queue_length(KList(redis, _queue_key(wf))) = Len(e) - Len(d)

\* two different tokens came back while a third one waits
C21_Witness ==
  /\ proc.pc = "queue"
  /\ \E wf \in WorkflowIds :
       /\ Len(proc.dequeued[wf]) = 2
       /\ proc.dequeued[wf][1] # proc.dequeued[wf][2]
       /\ queue_length(KList(redis, _queue_key(wf))) = 1

\* the thread is a Worker; process_task has returned or raised
InWorker == proc.pc \notin {"none", "queue"}
Ended == proc.result # None
ClientCalls == {"execute", "get_status", "get_output"}
CallsOf(ops) == {i \in DOMAIN calls : calls[i].op \in ops}
ClaimedStatus == redis[_task_key(proc.workflow_id, proc.task.task_id)].status

\* C22: when process_task has claimed a task and has ended, it has returned
\* True, it has called exactly one of complete_task and fail_task, once, and
\* the task is not left running, whatever the service answered and
\* whichever step failed.
C22_ClaimedTaskSettled ==
  InWorker /\ proc.claimed /\ Ended =>
    /\ proc.result = "True"
    /\ Cardinality(CallsOf({"complete_task", "fail_task"})) = 1
    /\ ClaimedStatus \in {"completed", "failed"}

\* C23: the long-running protocol.  The status is polled only after an
\* answer "running"; after a status "running" the next call is another
\* poll; output is called once, right after a status "complete";
\* complete_task after an execute "running" comes right after output and
\* passes its output; a status "failed" is followed by fail_task and never
\* by complete_task.
C23_PollingOrder ==
  InWorker =>
    /\ \A i \in CallsOf({"get_status"}) :
         /\ i > 1
         /\ calls[i - 1].op \in {"execute", "get_status"}
         /\ calls[i - 1].result = "running"
    /\ \A i \in DOMAIN calls :
         calls[i].result = "running" /\ i < Len(calls) =>
           calls[i + 1].op = "get_status"
    /\ Cardinality(CallsOf({"get_output"})) <= 1
    /\ \A i \in CallsOf({"get_output"}) :
         /\ i > 1
         /\ calls[i - 1].op = "get_status"
         /\ calls[i - 1].result = "complete"
    /\ \A i \in CallsOf({"complete_task"}) :
         calls[1].result = "running" =>
           /\ calls[i - 1].op = "get_output"
           /\ calls[i - 1].result = "ok"
           /\ calls[i].refs = calls[i - 1].refs
    /\ \A i \in CallsOf({"get_status"}) :
         calls[i].result = "failed" =>
           /\ CallsOf({"complete_task"}) = {}
           /\ i < Len(calls) => calls[i + 1].op = "fail_task"
           /\ Ended => i < Len(calls)

\* running twice, then complete: output fetched and passed on
C23_Witness ==
  /\ InWorker /\ Ended /\ Len(calls) = 6
  /\ calls[1].op = "execute" /\ calls[1].result = "running"
  /\ calls[2].op = "get_status" /\ calls[2].result = "running"
  /\ calls[3].op = "get_status" /\ calls[3].result = "running"
  /\ calls[4].op = "get_status" /\ calls[4].result = "complete"
  /\ calls[5].op = "get_output"
  /\ calls[6].op = "complete_task" /\ calls[6].refs = <<ServiceOutput>>
  /\ ClaimedStatus = "completed"

\* a node key without ":" or with an empty half
Malformed(node_key) ==
  ~\E i \in 2..(Len(node_key) - 1) :
     node_key[i] = ":" /\ \A j \in 1..(i - 1) : node_key[j] # ":"

\* the characters before the first ":"
ContainerOf(node_key) ==
  SubSeq(node_key, 1,
         (CHOOSE i \in DOMAIN node_key : node_key[i] = ":"
            /\ \A j \in 1..(i - 1) : node_key[j] # ":") - 1)

\* C24: for a claimed task whose node key is malformed or whose container
\* is not in the endpoint directory no HTTP call is made and the task is
\* failed with "Invalid node_key" resp. "Endpoint not found"; execute is
\* called only for a container of the directory.
C24_EndpointResolution ==
  InWorker /\ proc.claimed =>
    LET node_key == proc.task.node_key
        missing == /\ ~Malformed(node_key)
                   /\ ContainerOf(node_key) \notin DOMAIN proc.endpoints
        task == redis[_task_key(proc.workflow_id, proc.task.task_id)]
    IN /\ Malformed(node_key) \/ missing =>
            /\ CallsOf(ClientCalls) = {}
            /\ Ended =>
                 /\ proc.result = "True"
                 /\ task.status = "failed"
                 /\ task.error = IF Malformed(node_key)
                                 THEN "Invalid node_key format"
                                 ELSE "Endpoint not found"
       /\ \A i \in CallsOf({"execute"}) : calls[i].refs \in DOMAIN proc.endpoints

\* a key with an empty method was failed without any HTTP call
C24_Witness ==
  /\ InWorker /\ proc.claimed /\ Ended
  /\ proc.task.node_key = <<"a", ":">>
  /\ DOMAIN proc.endpoints # {}
  /\ ClaimedStatus = "failed"
  /\ Len(calls) = 1 /\ calls[1].op = "fail_task"

\* Worker.run waits for a task of a workflow that is not terminal
RunWaits ==
  /\ InWorker /\ proc.entry = "run" /\ proc.pc = "claim"
  /\ KList(redis, _queue_key(proc.workflow_id)) = <<>>

\* C25: Worker.run calls process_task only while the workflow is not
\* terminal and returns once it is; on an empty queue it returns when
\* timeout is 0.
C25_RunLoop ==
  /\ [][proc.pc = "run_check" /\ proc'.pc = "claim" =>
         ~IsWorkflowComplete(redis, proc.workflow_id)]_vars
  /\ (InWorker /\ proc.entry = "run" /\ proc.pc = "run_check"
        /\ IsWorkflowComplete(redis, proc.workflow_id))
       ~> (proc.pc = "returned")
  /\ (RunWaits /\ proc.timeout = 0) ~> (proc.pc = "returned")

\* the thread is the daemon; its last pass is over (a pass that stop()
\* cut short is not judged)
InDaemon == InWorker /\ proc.entry = "daemon"
PassDone ==
  /\ proc.pc \in {"daemon_scan", "daemon_sleep", "daemon_stopped"}
  /\ proc.passes > 0

\* C26: a pass of the daemon invokes process_task once for every workflow
\* the scan found running, in turn, and for no other; each invocation
\* ends; after the pass the daemon sleeps exactly when no invocation
\* processed a task.
C26_DaemonPass ==
  /\ [](InDaemon /\ PassDone /\ proc.running =>
          /\ proc.invoked = proc.scanned
          /\ proc.pc = "daemon_sleep" => ~proc.processed_any
          /\ proc.pc = "daemon_scan" => (proc.slept <=> ~proc.processed_any))
  /\ [](InDaemon =>
          \A i \in DOMAIN proc.invoked : \E j \in DOMAIN proc.scanned :
            proc.invoked[i] = proc.scanned[j])
  /\ (InDaemon /\ proc.pc = "claim") ~> (proc.pc = "daemon_next")

\* the step is the call `op` of the store or of the API
IsCall(op) == proc.pc = "store" /\ proc'.op = op
Untouched(wf) ==
  \A k \in DOMAIN redis \cup DOMAIN redis' :
    k[2] = wf => k \in DOMAIN redis /\ k \in DOMAIN redis' /\ redis'[k] = redis[k]

\* C27: create_workflow on an id that exists fails and leaves the workflow
\* record as it was; create_task on a workflow that is absent or with a
\* task id that exists fails and changes neither a task record nor the
\* task index.
C27_CreateConflicts ==
  [][LET wf == proc'.workflow_id
         t == proc'.task_id
     IN /\ (IsCall("create_workflow") /\ KExists(redis, _workflow_key(wf)))
             => (/\ proc'.error = "ValueError"
                 /\ redis'[_workflow_key(wf)] = redis[_workflow_key(wf)])
        /\ (/\ IsCall("create_task")
            /\ (~KExists(redis, _workflow_key(wf))
                  \/ KExists(redis, _task_key(wf, t))))
             => (proc'.error # None /\ Untouched(wf))]_vars

\* both conflicts have happened on a workflow that is no longer pending
C27_Witness ==
  /\ proc.pc = "store"
  /\ proc.op = "create_workflow" /\ proc.error = "ValueError"
  /\ redis[_workflow_key(proc.workflow_id)].status = "failed"
  /\ KMembers(redis, _workflow_tasks_key(proc.workflow_id)) # {}

\* C28: get_workflow, update_workflow_status and get_workflow_tasks on an
\* absent workflow fail with WorkflowNotFoundError, get_task and
\* update_task_status on an absent task with TaskNotFoundError, and write
\* nothing; GET and DELETE on a workflow that is absent, deleted or never
\* created, answer 404.
C28_MissingEntities ==
  [][LET wf == proc'.workflow_id
         t == proc'.task_id
         called(ops) == proc.pc = "store" /\ proc'.op \in ops
     IN /\ (/\ called({"get_workflow", "update_workflow_status",
                        "get_workflow_tasks"})
            /\ ~KExists(redis, _workflow_key(wf)))
             => (proc'.error = "WorkflowNotFoundError" /\ redis' = redis)
        /\ (/\ called({"get_task", "update_task_status"})
            /\ ~KExists(redis, _task_key(wf, t)))
             => (proc'.error = "TaskNotFoundError" /\ redis' = redis)
        /\ (/\ called({"GET", "GET tasks", "GET task", "DELETE"})
            /\ ~KExists(redis, _workflow_key(wf)))
             => (proc'.status_code = 404 /\ redis' = redis)]_vars

\* a GET of a task answered 404 after the DELETE of its workflow
C28_Witness ==
  /\ proc.pc = "store" /\ proc.deleted
  /\ proc.op = "GET task" /\ proc.status_code = 404
  /\ ~KExists(redis, _workflow_key(proc.workflow_id))

\* the port string is an integer of 1..65535
PortInRange(port) ==
  /\ ParsePort(port).error = None
  /\ ParsePort(port).value \in 1..65535

\* C29: a POST whose blueprint is valid and whose dockerinfo has an entry
\* with a port that is no integer of 1..65535 is answered 400 "Invalid
\* dockerinfo".
C29_PortRejected ==
  (/\ Responded
   /\ parse_json(blueprint).error = None
   /\ \E i \in DOMAIN request.dockerinfo.docker_info_list :
        ~PortInRange(request.dockerinfo.docker_info_list[i].port))
    => (/\ api.response.status_code = 400
        /\ api.response.detail[1] = "Invalid dockerinfo: ")

\* DELETE /workflows/{id} has answered 200
Deleted == api.pc = "deleted" /\ api.response.status_code = 200

\* thread w takes the step that leaves the position pc
Leaves(w, pc) == W(w).pc = pc /\ wk'[w].pc # pc

\* C30: after DELETE has answered 200, the writes of the process_task calls
\* that were in flight are still applied: the SET of claim_task,
\* complete_task, fail_task and _append_input_refs leaves the task record
\* in the store with the value written, and the LPUSH of complete_task
\* puts the dependent on the queue, and the SET of update_workflow_status
\* writes the workflow record again.  The resurrection is partial: the
\* task index and the endpoints hash stay deleted.
C30_WritesAfterDelete ==
  [][Deleted =>
       /\ wfTasks' = {}
       /\ endpoints' = <<>>
       /\ \A w \in Workers :
            /\ (Leaves(w, "claim_set")) =>
                 (/\ W(w).task_id \in DOMAIN taskRec'
                  /\ taskRec'[W(w).task_id].status = "running")
            /\ (Leaves(w, "complete_set")) =>
                 (/\ W(w).task_id \in DOMAIN taskRec'
                  /\ taskRec'[W(w).task_id].status = "completed")
            /\ (Leaves(w, "fail_set")) =>
                 (/\ W(w).task_id \in DOMAIN taskRec'
                  /\ taskRec'[W(w).task_id].status = "failed")
            /\ (Leaves(w, "append_set")) =>
                 (W(w).dep_id \in DOMAIN taskRec')
            /\ (Leaves(w, "enqueue")) =>
                 (queue' # <<>> /\ queue'[1] = W(w).dep_id)
            /\ (Leaves(w, "wf_set")) =>
                 (Exists(wfRec') /\ wfRec'.status = "completed")
            /\ (Leaves(w, "failwf_set")) =>
                 (Exists(wfRec') /\ wfRec'.status = "failed")]_vars

\* the workflow was deleted, and a completed task record and a queued
\* task of it are in the store again
C30_Witness ==
  /\ Deleted
  /\ ~Exists(wfRec)
  /\ wfTasks = {}
  /\ \E t \in DOMAIN taskRec : taskRec[t].status = "completed"
  /\ queue # <<>>

\* C31: when the service answers /control/execute with a status other than
\* complete, running or failed, process_task ends with one fail_task call
\* whose error is "Unknown status: ..." (the model keeps the prefix).
C31_UnknownStatusFails ==
  (/\ InWorker
   /\ Ended
   /\ proc.answered \notin ExecuteStatuses \cup {None})
    => (\E i \in DOMAIN calls :
          calls[i].op = "fail_task" /\ calls[i].result = "Unknown status")

\* the tokens `count` calls of dequeue_task would return from the list q,
\* in order
RECURSIVE NextTokens(_, _)
NextTokens(q, count) ==
  IF count = 0 \/ q = <<>> THEN <<>>
  ELSE <<dequeue_task(q).task_id>>
         \o NextTokens(dequeue_task(q).rest, count - 1)

\* C32: peek_queue(wf, count) with count >= 0 returns the first
\* min(count, queue_length) tokens in the order dequeue_task would return
\* them (none for count 0) and leaves the queue as it is.
C32_PeekQueue ==
  [][(proc'.pc = "queue" /\ proc'.peek # proc.peek /\ proc'.peek.count >= 0)
       => LET q == KList(redis, _queue_key(proc'.peek.workflow_id))
          IN /\ proc'.peek.error = None
             /\ proc'.peek.result = NextTokens(q, proc'.peek.count)
             /\ redis' = redis]_vars

\* parse_json has returned a graph
GraphReturned == api.pc = "initialize" /\ api.error = None

\* C33: in every graph parse_json returns, b is a next node of a iff a is a
\* dependency of b, every next node and every dependency is a node of the
\* graph, and start_nodes is the non-empty set of the nodes without
\* dependencies.
C33_GraphWellFormed ==
  GraphReturned =>
    LET g == api.graph
        keys == Range(g.all_nodes)
    IN /\ \A a \in keys, b \in keys :
            b \in Range(g.next_nodes[a]) <=> a \in Range(g.dependencies[b])
       /\ \A a \in keys : Range(g.next_nodes[a]) \subseteq keys
       /\ \A b \in keys : Range(g.dependencies[b]) \subseteq keys
       /\ Range(g.start_nodes) = {k \in keys : g.dependencies[k] = <<>>}
       /\ g.start_nodes # <<>>

\* the fan-in a -> c, b -> c was returned: two start nodes, and c depends
\* on both
C33_Witness ==
  /\ GraphReturned
  /\ api.graph.all_nodes = <<"a:run", "b:run", "c:run">>
  /\ api.graph.next_nodes["a:run"] = <<"c:run">>
  /\ api.graph.next_nodes["b:run"] = <<"c:run">>
  /\ api.graph.dependencies["c:run"] = <<"a:run", "b:run">>
  /\ api.graph.start_nodes = <<"a:run", "b:run">>

\* stop() has set the daemon's flag
StopRequested == InDaemon /\ ~proc.running

\* C34: once stop() has set the flag the daemon starts no new scan pass,
\* and its run loop exits, whatever the queues of the running workflows
\* hold.
C34_StopExits ==
  /\ [][StopRequested => proc'.passes = proc.passes]_vars
  /\ StopRequested ~> (proc.pc = "daemon_stopped")

\* C35: once initialize_workflow has written the workflow, no step of
\* start_workflow, claim_task, complete_task or fail_task adds or removes a
\* task of the index or a task record, changes a task's id or node_key,
\* changes the node -> task map, or adds a member to a remaining-
\* dependency set.
C35_NoGraphMutation ==
  [][Exists(wfRec) =>
       /\ wfTasks' = wfTasks
       /\ graphMap' = graphMap
       /\ dependents' = dependents
       /\ DOMAIN taskRec' = DOMAIN taskRec
       /\ \A t \in DOMAIN taskRec :
            /\ taskRec'[t].task_id = taskRec[t].task_id
            /\ taskRec'[t].node_key = taskRec[t].node_key
       /\ \A t \in wfTasks : SMembers(deps', t) \subseteq SMembers(deps, t)]_vars

\* a task was claimed and completed, its dependent has no dependency left
\* and was claimed in turn, and the map still names every task by its
\* node_key
C35_Witness ==
  /\ Exists(wfRec)
  /\ \E t \in wfTasks, d \in wfTasks :
       /\ taskRec[t].status = "completed"
       /\ d \in SMembers(dependents, t)
       /\ SMembers(deps, d) = {}
       /\ taskRec[d].status = "running"
  /\ \A k \in DOMAIN graphMap :
       graphMap[k] \in wfTasks /\ taskRec[graphMap[k]].node_key = k

\* the daemon is inside process_task(timeout=0) on a workflow whose queue
\* is empty, while the running workflow wf, still ahead in this pass, has
\* endpoints and a task on its queue
OtherWaits(wf) ==
  /\ InDaemon
  /\ proc.running
  /\ proc.pc = "claim"
  /\ proc.workflow_id # wf
  /\ KList(redis, _queue_key(proc.workflow_id)) = <<>>
  /\ wf \in Range(proc.workflows)
  /\ redis[_workflow_key(wf)].status = "running"
  /\ DOMAIN load_endpoints(redis, wf) # {}
  /\ KList(redis, _queue_key(wf)) # <<>>

\* the daemon has taken the task of wf from its queue, or was stopped
Served(wf) == KList(redis, _queue_key(wf)) = <<>> \/ ~proc.running

\* C36: process_task(wf, timeout=0) on a running workflow with an empty
\* queue returns False, so the daemon goes on to the ready task of the
\* other running workflow of the pass.
C36_PassNeverBlocks ==
  /\ (InDaemon /\ proc.pc = "claim"
        /\ KList(redis, _queue_key(proc.workflow_id)) = <<>>)
       ~> (proc.pc = "daemon_next" /\ proc.result = "False")
  /\ OtherWaits("wf-1") ~> Served("wf-1")
  /\ OtherWaits("wf-2") ~> Served("wf-2")

\* C37: complete_task called again for a completed task, with the outputs
\* it was completed with, changes nothing: no task's input_refs grows
\* beyond one reference per predecessor, no task is put on the queue a
\* second time, and a completed task's output_refs stay as first written.
C37_ReplayHarmless ==
  /\ [](\A t \in DOMAIN taskRec :
          /\ hist.enq[t] <= 1
          /\ Len(taskRec[t].input_refs) <= Cardinality(Preds(t)))
  /\ [][\A t \in DOMAIN taskRec \cap DOMAIN taskRec' :
          taskRec[t].status = "completed"
            => taskRec'[t].output_refs = taskRec[t].output_refs]_vars

\* the workflow record has status failed
WorkflowFailed == Exists(wfRec) /\ wfRec.status = "failed"

\* C38: once the workflow's status is failed, no task is put on its queue
\* and no task moves from pending to running, also when tasks that were in
\* flight at the failure complete afterwards.
C38_QuiescentAfterFailure ==
  [][WorkflowFailed =>
       /\ \A t \in AllTasks : hist.enq'[t] = hist.enq[t]
       /\ \A t \in DOMAIN taskRec \cap DOMAIN taskRec' :
            taskRec[t].status = "pending" => taskRec'[t].status # "running"]_vars

\* C39: under any interleaving of the TaskManager's calls, get_output
\* returns a value only for a task whose status is complete; and once
\* get_status has reported complete for a task id, every later get_status
\* of it reports complete with progress 100 and every later get_output of
\* it returns an output that was passed to complete_task.
C39_CompleteIsFinal ==
  [][(proc'.pc = "task_manager" /\ proc' # proc) =>
       LET t == proc'.task_id
       IN /\ (proc'.op = "get_output" /\ proc'.output # None)
               => (t \in DOMAIN tasks /\ tasks[t].status = "complete")
          /\ (proc'.op = "get_status" /\ t \in proc.reported)
               => (proc'.status.status = "complete"
                   /\ proc'.status.progress = 100)
          /\ (proc'.op = "get_output" /\ t \in proc.reported)
               => (proc'.output \in proc.passed[t])]_vars

====
